---- MODULE Spec2Model ----
(***************************************************************************)
(* Model of the Obsidian -> Confluence sync plugin (src/src/main.ts) and   *)
(* its REST client (src/unnamed/part_000).                                 *)
(*                                                                         *)
(* Text is a sequence of lexemes (strings): every punctuation character    *)
(* the source's regular expressions look at is one lexeme ("!", "[", "]",  *)
(* "(", ")", "|", "#", "^", ".", "/", "-", " ", "\n"); a fence marker (three *)
(* backticks "BT3", three tildes "TL3"), a name stem, an extension and the  *)
(* placeholder scheme are one lexeme each.  A file is identified by its    *)
(* path.                                                                   *)
(***************************************************************************)
EXTENDS Integers, Sequences, FiniteSets, TLC

\* ------------------------------------------------------------------ bounds
MaxPieces == 3
MaxRuns == 2
MaxFaults == 1

\* --------------------------------------------------------- generic helpers
None == "none"

\* The null TFile (a path is never empty).
NoFile == <<>>

Min(S) == CHOOSE x \in S : \A y \in S : x <= y

Max(S) == CHOOSE x \in S : \A y \in S : x >= y

\* String.prototype.indexOf(c, from) on a lexeme sequence; 0 when absent.
IndexOf(s, c, from) ==
  LET S == {j \in from..Len(s) : s[j] = c} IN IF S = {} THEN 0 ELSE Min(S)

\* String.prototype.lastIndexOf(c); 0 when absent.
LastIndexOf(s, c) ==
  LET S == {j \in 1..Len(s) : s[j] = c} IN IF S = {} THEN 0 ELSE Max(S)

RECURSIVE SplitOn(_, _)
\* String.prototype.split(c)
SplitOn(s, c) ==
  LET j == IndexOf(s, c, 1)
  IN  IF j = 0 THEN <<s>>
      ELSE <<SubSeq(s, 1, j - 1)>> \o SplitOn(SubSeq(s, j + 1, Len(s)), c)

RECURSIVE JoinWith(_, _)
\* Array.prototype.join(c)
JoinWith(parts, c) ==
  IF Len(parts) = 0 THEN <<>>
  ELSE IF Len(parts) = 1 THEN parts[1]
  ELSE parts[1] \o <<c>> \o JoinWith(Tail(parts), c)

WhiteSpace == {" ", "\n"}

\* String.prototype.trim()
Trim(s) ==
  LET S == {j \in 1..Len(s) : s[j] \notin WhiteSpace}
  IN  IF S = {} THEN <<>> ELSE SubSeq(s, Min(S), Max(S))

Digit == <<"0", "1", "2", "3", "4", "5", "6", "7", "8", "9">>

RECURSIVE NumToStr(_)
\* template-literal rendering of a number
NumToStr(n) ==
  IF n < 10 THEN <<Digit[n + 1]>> ELSE NumToStr(n \div 10) \o <<Digit[(n % 10) + 1]>>

\* ------------------------------------------------------- the vault (host)
IMAGE_ATTACHMENT_PREFIX == "confluence-attachment://"

SUPPORTED_IMAGE_EXTENSIONS ==
  {"png", "jpg", "jpeg", "gif", "svg", "webp", "bmp", "tif", "tiff"}

\* String.prototype.toLowerCase on a lexeme
LowerLexeme(x) ==
  CASE x = "PNG" -> "png"
    [] x = "A" -> "a"
    [] x = "B" -> "b"
    [] x = "O" -> "o"
    [] OTHER -> x

ToLowerCase(s) == [i \in 1..Len(s) |-> LowerLexeme(s[i])]

SelfPath == <<"s", ".", "md">>
OtherPath == <<"o", ".", "md">>
Img1Path == <<"d1", "/", "a", ".", "png">>
Img2Path == <<"d2", "/", "a", ".", "png">>
Img3Path == <<"a", "-", "2", ".", "png">>
Img4Path == <<"b", ".", "PNG">>
Img5Path == <<"d3", "/", "a", ".", "png">>

\* vault.getFiles(), in the host's order
VaultFiles == <<SelfPath, OtherPath, Img1Path, Img2Path, Img3Path, Img4Path, Img5Path>>

VaultPaths == {VaultFiles[i] : i \in 1..Len(VaultFiles)}

NoteFiles == {SelfPath, OtherPath}

\* TFile.name: the path after its last "/"
FileName(path) == SubSeq(path, LastIndexOf(path, "/") + 1, Len(path))

\* TFile.extension: the name after its last "."
FileExtension(path) ==
  LET n == FileName(path) k == LastIndexOf(n, ".")
  IN  IF k = 0 THEN <<>> ELSE SubSeq(n, k + 1, Len(n))

\* TFile.basename: the name without its extension
FileBasename(path) ==
  LET n == FileName(path) k == LastIndexOf(n, ".")
  IN  IF k = 0 THEN n ELSE SubSeq(n, 1, k - 1)

\* vault.getAbstractFileByPath
getAbstractFileByPath(p) == IF p \in VaultPaths THEN p ELSE NoFile

\* metadataCache.getFirstLinkpathDest: the host's link-graph lookup; the first
\* vault file whose path, name or (for a note) basename is the link path.
getFirstLinkpathDest(linkpath, sourcePath) ==
  LET S == {i \in 1..Len(VaultFiles) :
              \/ VaultFiles[i] = linkpath
              \/ FileName(VaultFiles[i]) = linkpath
              \/ /\ FileExtension(VaultFiles[i]) = <<"md">>
                 /\ FileBasename(VaultFiles[i]) = linkpath}
  IN  IF S = {} THEN NoFile ELSE VaultFiles[Min(S)]

\* The file a set of matches names: its only member, else null.
OnlyMatch(matches) ==
  IF Cardinality(matches) = 1 THEN CHOOSE f \in matches : TRUE ELSE NoFile

\* a || b on TFile | null
OrElse(a, b) == IF a # NoFile THEN a ELSE b

\* resolveLinkTargetFile from the null check of normalized on.
ResolveNormalized(normalized, sourceFile, hasExtension) ==
  IF normalized = <<>> THEN NoFile
  ELSE OrElse(getAbstractFileByPath(normalized),
         OrElse(getFirstLinkpathDest(normalized, sourceFile),
           OnlyMatch({f \in VaultPaths :
                        ToLowerCase(IF hasExtension THEN FileName(f) ELSE FileBasename(f))
                          = ToLowerCase(normalized)})))

\* linkTarget.replace(/\\/g, "/").trim()
NormalizeTarget(linkTarget) ==
  Trim([i \in 1..Len(linkTarget) |-> IF linkTarget[i] = "\\" THEN "/" ELSE linkTarget[i]])

resolveLinkTargetFile(linkTarget, sourceFile) ==
  ResolveNormalized(NormalizeTarget(linkTarget), sourceFile,
                    IndexOf(NormalizeTarget(linkTarget), ".", 1) # 0)

isImageFile(file) ==
  /\ Len(FileExtension(file)) = 1
  /\ LowerLexeme(FileExtension(file)[1]) \in SUPPORTED_IMAGE_EXTENSIONS

\* ------------------------------------------------------------ parseWikiLink
\* Mutant of LabelOr: the label is the raw target even when an alias is given.
LabelIsTarget(label, rawTarget) == rawTarget

\* label || rawTarget
LabelOr(label, rawTarget) == IF label # <<>> THEN label ELSE rawTarget

\* Mutant of ParsedLink: the base target keeps the heading and block parts.
ParsedLinkRaw(parts, rawTarget) ==
  [target |-> rawTarget,
   label |-> LabelOr(Trim(IF Len(parts) >= 2 /\ parts[2] # <<>> THEN parts[2]
                          ELSE rawTarget),
                     rawTarget),
   baseTarget |-> rawTarget]

\* parseWikiLink once parts and rawTarget are known.
ParsedLink(parts, rawTarget) ==
  [target |-> rawTarget,
   label |-> LabelOr(Trim(IF Len(parts) >= 2 /\ parts[2] # <<>> THEN parts[2]
                          ELSE rawTarget),
                     rawTarget),
   baseTarget |-> Trim(SplitOn(SplitOn(rawTarget, "#")[1], "^")[1])]

SplitParts(parts) == ParsedLink(parts, Trim(parts[1]))

parseWikiLink(inner) == SplitParts(SplitOn(inner, "|"))

\* ----------------------------------------------------------- Map<K, V>
EmptyMap == [k \in {} |-> None]

MapHas(m, k) == k \in DOMAIN m

MapGet(m, k) == m[k]

MapSet(m, k, v) == [q \in (DOMAIN m) \cup {k} |-> IF q = k THEN v ELSE m[q]]

\* ------------------------------------------------------ URI component codec
EncodeLexeme(x) ==
  CASE x = " " -> "%20"
    [] x = "/" -> "%2F"
    [] x = "[" -> "%5B"
    [] x = "]" -> "%5D"
    [] x = "|" -> "%7C"
    [] x = "#" -> "%23"
    [] x = "^" -> "%5E"
    [] OTHER -> x

encodeURIComponent(s) == [i \in 1..Len(s) |-> EncodeLexeme(s[i])]

DecodeLexeme(x) ==
  CASE x = "%20" -> " "
    [] x = "%2F" -> "/"
    [] x = "%5B" -> "["
    [] x = "%5D" -> "]"
    [] x = "%7C" -> "|"
    [] x = "%23" -> "#"
    [] x = "%5E" -> "^"
    [] OTHER -> x

decodeURIComponent(s) == [i \in 1..Len(s) |-> DecodeLexeme(s[i])]

\* ------------------------------------------------------ buildUniqueFilename
\* The suffixed name: base-N.ext, or name-N when the name has no ".".
\* Mutant of SuffixedName: the suffix always goes to the end of the name.
SuffixAtEnd(filename, nextCount, extensionIndex) ==
  filename \o <<"-">> \o NumToStr(nextCount)

SuffixedName(filename, nextCount, extensionIndex) ==
  IF extensionIndex = 0
  THEN filename \o <<"-">> \o NumToStr(nextCount)
  ELSE SubSeq(filename, 1, extensionIndex - 1) \o <<"-">> \o NumToStr(nextCount)
         \o SubSeq(filename, extensionIndex, Len(filename))

\* Returns the filename and the updated usedNames map.
buildUniqueFilename(filename, usedNames) ==
  IF ~MapHas(usedNames, filename)
  THEN [filename |-> filename, usedNames |-> MapSet(usedNames, filename, 1)]
  ELSE [filename |-> SuffixedName(filename, MapGet(usedNames, filename) + 1,
                                  LastIndexOf(filename, ".")),
        usedNames |-> MapSet(usedNames, filename, MapGet(usedNames, filename) + 1)]

\* ---------------------------------------------------- getOrCreateAttachment
\* Mutant of NewAccumulator: the counters of an earlier call are still there.
LeftOverAccumulator ==
  [attachments |-> <<>>, attachmentByPath |-> EmptyMap,
   usedNames |-> MapSet(EmptyMap, <<"a", ".", "png">>, 1)]

\* The accumulator of one resolveImageEmbeds call: attachments,
\* attachmentByPath, usedNames.
NewAccumulator ==
  [attachments |-> <<>>, attachmentByPath |-> EmptyMap, usedNames |-> EmptyMap]

NewAttachment(file, filename) ==
  [file |-> file, filename |-> filename,
   placeholderUrl |-> <<IMAGE_ATTACHMENT_PREFIX>> \o encodeURIComponent(filename)]

\* attachmentByPath.set and attachments.push
Registered(acc, attachment, usedNames) ==
  [attachment |-> attachment,
   acc |-> [attachments |-> Append(acc.attachments, attachment),
            attachmentByPath |-> MapSet(acc.attachmentByPath, attachment.file, attachment),
            usedNames |-> usedNames]]

\* The new attachment for the unique name u = buildUniqueFilename(...).
Register(file, acc, u) == Registered(acc, NewAttachment(file, u.filename), u.usedNames)

\* Mutant of getOrCreateAttachment: no lookup in attachmentByPath.
getOrCreateAttachmentNoLookup(file, acc) ==
  Register(file, acc, buildUniqueFilename(FileName(file), acc.usedNames))

\* Returns the attachment and the updated accumulator.
getOrCreateAttachment(file, acc) ==
  IF MapHas(acc.attachmentByPath, file)
  THEN [attachment |-> MapGet(acc.attachmentByPath, file), acc |-> acc]
  ELSE Register(file, acc, buildUniqueFilename(FileName(file), acc.usedNames))

\* The replacement text for an attachment r = getOrCreateAttachment(...).
ImageMarkdown(r) ==
  [text |-> <<"!", "[", "]", "(">> \o r.attachment.placeholderUrl \o <<")">>,
   acc |-> r.acc]

\* The end of both replace callbacks, from the resolved target file on.
AttachTarget(match, targetFile, acc) ==
  IF targetFile = NoFile \/ ~isImageFile(targetFile)
  THEN [text |-> match, acc |-> acc]
  ELSE ImageMarkdown(getOrCreateAttachment(targetFile, acc))

\* ------------------------------------------------- resolveImageEmbeds: regexes
\* The fence regex /^\s*(BT3|TL3)/ on a line: the marker, or None.
FenceMatch(line) ==
  LET S == {j \in 1..Len(line) : line[j] \notin WhiteSpace}
  IN  IF S # {} /\ line[Min(S)] \in {"BT3", "TL3"} THEN line[Min(S)] ELSE None

\* The end of a match of [^\]]+\]\] from index i on, given the index j of the
\* first "]" from i on: the index of the second "]", or 0.
ClosedAt(s, i, j) ==
  IF j > i /\ j + 1 <= Len(s) /\ s[j + 1] = "]" THEN j + 1 ELSE 0

\* /!\[\[([^\]]+)\]\]/ anchored at i: the index of the match's last lexeme, or 0.
EmbedMatchEnd(s, i) ==
  IF i + 5 <= Len(s) /\ s[i] = "!" /\ s[i + 1] = "[" /\ s[i + 2] = "["
  THEN ClosedAt(s, i + 3, IndexOf(s, "]", i + 3))
  ELSE 0

\* The callback of the embed replace, from baseTarget on.
EmbedTarget(match, baseTarget, acc, sourceFile) ==
  IF baseTarget = <<>> THEN [text |-> match, acc |-> acc]
  ELSE AttachTarget(match, resolveLinkTargetFile(baseTarget, sourceFile), acc)

\* The callback of the embed replace: replacement text and accumulator.
EmbedReplacement(match, inner, acc, sourceFile) ==
  EmbedTarget(match, parseWikiLink(inner).baseTarget, acc, sourceFile)

\* The scan state after the match s[st.i..e] was replaced by r.
Advance(st, e, r) == [i |-> e + 1, out |-> st.out \o r.text, acc |-> r.acc]

\* The scan state after index st.i was tried for an embed; e is the match end.
EmbedStepAt(s, st, e, sourceFile) ==
  IF e = 0 THEN [st EXCEPT !.i = @ + 1, !.out = Append(@, s[st.i])]
  ELSE Advance(st, e,
               EmbedReplacement(SubSeq(s, st.i, e), SubSeq(s, st.i + 3, e - 2),
                                st.acc, sourceFile))

RECURSIVE ReplaceEmbeds(_, _, _)
\* line.replace(/!\[\[([^\]]+)\]\]/g, callback); st = [i, out, acc] is the scan
\* state.
ReplaceEmbeds(s, st, sourceFile) ==
  IF st.i > Len(s) THEN [text |-> st.out, acc |-> st.acc]
  ELSE ReplaceEmbeds(s, EmbedStepAt(s, st, EmbedMatchEnd(s, st.i), sourceFile),
                     sourceFile)

\* The rest of the Markdown-image match after its "]" at j, given the index k
\* of the first ")" after "](": [close, end], end = 0 when there is no match.
ImageClosedAt(s, j, k) ==
  IF j # 0 /\ j + 1 <= Len(s) /\ s[j + 1] = "(" /\ k > j + 2
  THEN [close |-> j, end |-> k]
  ELSE [close |-> 0, end |-> 0]

\* The Markdown-image match from its alt text on, j the index of the first "]".
ImageAltClosedAt(s, j) ==
  ImageClosedAt(s, j, IF j = 0 THEN 0 ELSE IndexOf(s, ")", j + 2))

\* /!\[([^\]]*)\]\(([^)]+)\)/ anchored at i: [close |-> index of "]", end |-> index
\* of ")"], end = 0 when there is no match.
MdImageMatch(s, i) ==
  IF i + 1 <= Len(s) /\ s[i] = "!" /\ s[i + 1] = "["
  THEN ImageAltClosedAt(s, IndexOf(s, "]", i + 2))
  ELSE [close |-> 0, end |-> 0]

\* .replace(/^<|>$/g, "") on the trimmed path
StripAngles(t) ==
  SubSeq(t, IF t # <<>> /\ t[1] = "<" THEN 2 ELSE 1,
            IF t # <<>> /\ t[Len(t)] = ">" THEN Len(t) - 1 ELSE Len(t))

\* rawPath.trim().replace(/^<|>$/g, "")
CleanPath(rawPath) == StripAngles(Trim(rawPath))

\* The callback of the Markdown-image replace, from cleaned on.
MdImageTarget(match, cleaned, acc, sourceFile) ==
  IF /\ cleaned # <<>>
     /\ \/ cleaned[1] = IMAGE_ATTACHMENT_PREFIX
        \/ cleaned[1] \in {"http:", "https:", "HTTP:", "data:"}
  THEN [text |-> match, acc |-> acc]
  ELSE AttachTarget(match,
                    resolveLinkTargetFile(
                      decodeURIComponent(SplitOn(SplitOn(cleaned, "?")[1], "#")[1]),
                      sourceFile),
                    acc)

\* The callback of the Markdown-image replace.
MdImageReplacement(match, rawPath, acc, sourceFile) ==
  MdImageTarget(match, CleanPath(rawPath), acc, sourceFile)

\* The scan state after index st.i was tried for a Markdown image; m is the
\* match.
MdImageStepAt(s, st, m, sourceFile) ==
  IF m.end = 0 THEN [st EXCEPT !.i = @ + 1, !.out = Append(@, s[st.i])]
  ELSE Advance(st, m.end,
               MdImageReplacement(SubSeq(s, st.i, m.end),
                                  SubSeq(s, m.close + 2, m.end - 1),
                                  st.acc, sourceFile))

RECURSIVE ReplaceMdImages(_, _, _)
\* updated.replace(/!\[([^\]]*)\]\(([^)]+)\)/g, callback); st is the scan state.
ReplaceMdImages(s, st, sourceFile) ==
  IF st.i > Len(s) THEN [text |-> st.out, acc |-> st.acc]
  ELSE ReplaceMdImages(s, MdImageStepAt(s, st, MdImageMatch(s, st.i), sourceFile),
                       sourceFile)

ScanFrom(acc) == [i |-> 1, out |-> <<>>, acc |-> acc]

\* The second replace of the loop body, on the result e of the first.
SecondReplace(e, sourceFile) == ReplaceMdImages(e.text, ScanFrom(e.acc), sourceFile)

\* processed.push(updated)
PushUpdated(st, m) == [st EXCEPT !.processed = Append(@, m.text), !.acc = m.acc]

\* The loop body for a line that matches the fence regex.
FenceLine(line, st, marker) ==
  [inCodeBlock |-> IF ~st.inCodeBlock THEN TRUE
                   ELSE IF marker = st.fenceMarker THEN FALSE
                   ELSE st.inCodeBlock,
   fenceMarker |-> IF ~st.inCodeBlock THEN marker
                   ELSE IF marker = st.fenceMarker THEN ""
                   ELSE st.fenceMarker,
   processed |-> Append(st.processed, line),
   acc |-> st.acc]

\* One iteration of the line loop: st = [inCodeBlock, fenceMarker, processed, acc].
ProcessLine(line, st, sourceFile) ==
  IF FenceMatch(line) # None THEN FenceLine(line, st, FenceMatch(line))
  ELSE IF st.inCodeBlock THEN [st EXCEPT !.processed = Append(@, line)]
  ELSE PushUpdated(st,
         SecondReplace(ReplaceEmbeds(line, ScanFrom(st.acc), sourceFile), sourceFile))

RECURSIVE ProcessLines(_, _, _, _)
ProcessLines(lines, k, st, sourceFile) ==
  IF k > Len(lines) THEN st
  ELSE ProcessLines(lines, k + 1, ProcessLine(lines[k], st, sourceFile), sourceFile)

\* return { markdown: processed.join("\n"), attachments }
EmbedsResult(st) ==
  [markdown |-> JoinWith(st.processed, "\n"), attachments |-> st.acc.attachments]

resolveImageEmbeds(markdown, sourceFile) ==
  EmbedsResult(ProcessLines(SplitOn(markdown, "\n"), 1,
                            [inCodeBlock |-> FALSE, fenceMarker |-> "",
                             processed |-> <<>>, acc |-> NewAccumulator],
                            sourceFile))

\* ------------------------------------------------------- resolveWikiLinks
\* /\[\[([^\]]+)\]\]/ anchored at i: the index of the match's last lexeme, or 0.
LinkMatchEnd(s, i) ==
  IF i + 4 <= Len(s) /\ s[i] = "[" /\ s[i + 1] = "["
  THEN ClosedAt(s, i + 2, IndexOf(s, "]", i + 2))
  ELSE 0

\* One entry of occurrences (start and end are 1-based, end inclusive); w is
\* parseWikiLink(inner).
OccurrenceOf(full, inner, i, e, w) ==
  [full |-> full, inner |-> inner, start |-> i, end |-> e,
   target |-> w.target, label |-> w.label, baseTarget |-> w.baseTarget]

Occurrence(s, i, e) ==
  OccurrenceOf(SubSeq(s, i, e), SubSeq(s, i + 2, e - 2), i, e,
               parseWikiLink(SubSeq(s, i + 2, e - 2)))

\* occurrences.push unless the base target is empty
PushOccurrence(st, o) ==
  [i |-> o.end + 1,
   occurrences |-> IF o.baseTarget = <<>> THEN st.occurrences
                   ELSE Append(st.occurrences, o)]

\* Mutant of ScanStepAt: a match preceded by "!" is recorded like any other.
ScanStepAtNoSkip(s, st, e) ==
  IF e = 0 THEN [st EXCEPT !.i = @ + 1]
  ELSE PushOccurrence(st, Occurrence(s, st.i, e))

\* The loop body of the regex.exec loop for a try at index st.i with match
\* end e: a match preceded by "!" is skipped.
ScanStepAt(s, st, e) ==
  IF e = 0 THEN [st EXCEPT !.i = @ + 1]
  ELSE IF st.i > 1 /\ s[st.i - 1] = "!" THEN [st EXCEPT !.i = e + 1]
  ELSE PushOccurrence(st, Occurrence(s, st.i, e))

RECURSIVE ScanLinks(_, _)
\* The regex.exec loop; st = [i, occurrences].
ScanLinks(s, st) ==
  IF st.i > Len(s) THEN st.occurrences
  ELSE ScanLinks(s, ScanStepAt(s, st, LinkMatchEnd(s, st.i)))

LinkOccurrences(markdown) == ScanLinks(markdown, [i |-> 1, occurrences |-> <<>>])

\* targets: the Set of base targets
LinkTargets(occurrences) ==
  {occurrences[k].baseTarget : k \in 1..Len(occurrences)}

\* The null URL (a URL is never empty).
NoUrl == <<>>

\* What the substitution loop appends for occurrence o with resolved URL url.
LinkText(o, url) ==
  IF url # NoUrl THEN <<"[">> \o o.label \o <<"]", "(">> \o url \o <<")">>
  ELSE o.full

\* resolved.get(baseTarget): undefined, like null, is no URL.
UrlOf(resolved, baseTarget) ==
  IF MapHas(resolved, baseTarget) THEN MapGet(resolved, baseTarget) ELSE NoUrl

\* One iteration of the substitution loop; st = [lastIndex, output].
SubstituteStep(markdown, st, o, resolved) ==
  [lastIndex |-> o.end + 1,
   output |-> st.output \o SubSeq(markdown, st.lastIndex, o.start - 1)
                \o LinkText(o, UrlOf(resolved, o.baseTarget))]

RECURSIVE Substitute(_, _, _, _, _)
\* The substitution loop over occurrences, from occurrence k on.
Substitute(markdown, occurrences, resolved, k, st) ==
  IF k > Len(occurrences)
  THEN st.output \o SubSeq(markdown, st.lastIndex, Len(markdown))
  ELSE Substitute(markdown, occurrences, resolved, k + 1,
                  SubstituteStep(markdown, st, occurrences[k], resolved))

SubstituteLinks(markdown, occurrences, resolved) ==
  Substitute(markdown, occurrences, resolved, 1, [lastIndex |-> 1, output |-> <<>>])

\* resolveWikiLinks, given the result of Promise.all.
resolveWikiLinks(markdown, convertWikiLinks, occurrences, resolved) ==
  IF ~convertWikiLinks THEN markdown
  ELSE IF Len(occurrences) = 0 THEN markdown
  ELSE SubstituteLinks(markdown, occurrences, resolved)

\* ConfluenceClient.getPageUrl
getPageUrl(id) ==
  <<"https://wiki/pages/viewpage.action?pageId=">> \o encodeURIComponent(NumToStr(id))

\* ------------------------------------------------------------ stripFrontmatter
\* The raw text of a note whose frontmatter stores page id `id` (0: no
\* frontmatter block) in front of `body`.
NoId == 0

\* The frontmatter block of a file's text: the form of the page-id line
\* ("none", "plain", "quoted", "escaped") and its id, the id under another,
\* older key, and the id under a parent key (NoId: no such line).
Meta(form, pageId, legacyPageId, parentId) ==
  [form |-> form, pageId |-> pageId, legacyPageId |-> legacyPageId, parentId |-> parentId]

\* The block of a file that stores page id `id` as the cache shows it.
PlainMeta(id) == Meta(IF id = NoId THEN "none" ELSE "plain", id, NoId, NoId)

\* processFrontMatter: the block with the page-id line set to id.
WithPageId(meta, id) == [meta EXCEPT !.form = "plain", !.pageId = id]

\* The page-id line of a block: KEY: 2, KEY: "2", or \KEY\:\2\ .
PageIdLines(meta) ==
  CASE meta.form = "plain" ->
         <<<<"confluencePageId", ":", " ">> \o NumToStr(meta.pageId)>>
    [] meta.form = "quoted" ->
         <<<<"confluencePageId", ":", " ", "\"">> \o NumToStr(meta.pageId) \o <<"\"">>>>
    [] meta.form = "escaped" ->
         <<<<"\\", "confluencePageId", "\\", ":", "\\">> \o NumToStr(meta.pageId)
             \o <<"\\">>>>
    [] OTHER -> <<>>

\* The line of key with value id, none for NoId.
KeyLines(key, id) ==
  IF id = NoId THEN <<>> ELSE <<<<key, ":", " ">> \o NumToStr(id)>>

\* The lines of a block.
MetaLines(meta) ==
  PageIdLines(meta) \o KeyLines("legacyPageId", meta.legacyPageId)
    \o KeyLines("parentPageId", meta.parentId)

\* The raw text of a note: the block, when it has a line, in front of body.
RenderLines(lines, body) ==
  IF lines = <<>> THEN body
  ELSE <<"---", "\n">> \o JoinWith(lines, "\n") \o <<"\n", "---", "\n">> \o body

RenderNote(meta, body) == RenderLines(MetaLines(meta), body)

\* The loop of stripFrontmatter over lines; S holds the indices of the lines
\* that close the block.
StripLines(content, lines, S) ==
  IF S = {} THEN content
  ELSE JoinWith(SubSeq(lines, Min(S) + 1, Len(lines)), "\n")

ClosingLines(lines) ==
  {i \in 2..Len(lines) : Trim(lines[i]) \in {<<"---">>, <<"...">>}}

StripSplit(content, lines) == StripLines(content, lines, ClosingLines(lines))

stripFrontmatter(content) ==
  IF ~(content # <<>> /\ content[1] = "---") THEN content
  ELSE StripSplit(content, SplitOn(content, "\n"))

\* ------------------------------------------- convertMarkdownToConfluence
\* The converter renders a Markdown image ![alt](path) as an img element and
\* passes every other lexeme through; st = [i, out].
ConvertStepAt(s, st, m) ==
  IF m.end = 0 THEN [i |-> st.i + 1, out |-> Append(st.out, s[st.i])]
  ELSE [i |-> m.end + 1,
        out |-> st.out \o <<"<img", " ", "src=", "\"">>
                  \o SubSeq(s, m.close + 2, m.end - 1) \o <<"\"", ">">>]

RECURSIVE ConvertFrom(_, _)
ConvertFrom(s, st) ==
  IF st.i > Len(s) THEN st.out
  ELSE ConvertFrom(s, ConvertStepAt(s, st, MdImageMatch(s, st.i)))

convertMarkdownToConfluence(markdown) ==
  <<"<p>">> \o ConvertFrom(markdown, [i |-> 1, out |-> <<>>]) \o <<"</p>">>

\* --------------------------------------------------- replaceImagePlaceholders
EscapeHtmlLexeme(x) ==
  CASE x = "&" -> "&amp;"
    [] x = "\"" -> "&quot;"
    [] x = "<" -> "&lt;"
    [] x = ">" -> "&gt;"
    [] OTHER -> x

escapeHtmlAttribute(value) == [i \in 1..Len(value) |-> EscapeHtmlLexeme(value[i])]

\* Whether src=["']URL["'] stands between i and the closing ">" at close.
HasSrc(s, i, close, url) ==
  \E j \in (i + 1)..(close - 1) :
    /\ s[j] = "src="
    /\ j + 2 + Len(url) <= close - 1
    /\ s[j + 1] \in {"\"", "'"}
    /\ SubSeq(s, j + 2, j + 1 + Len(url)) = url
    /\ s[j + 2 + Len(url)] \in {"\"", "'"}

\* <img[^>]*src=["']URL["'][^>]*> anchored at i: the index of the closing ">",
\* or 0.
ImgClosedAt(s, i, close, url) ==
  IF close # 0 /\ HasSrc(s, i, close, url) THEN close ELSE 0

ImgMatchEnd(s, i, url) ==
  IF s[i] # "<img" THEN 0 ELSE ImgClosedAt(s, i, IndexOf(s, ">", i + 1), url)

\* The attachment markup pair.
AttachmentMarkup(attachment) ==
  <<"<ac:image>", "<ri:attachment ri:filename=", "\"">>
    \o escapeHtmlAttribute(attachment.filename) \o <<"\"", " />", "</ac:image>">>

ReplaceImgStepAt(s, st, e, attachment) ==
  IF e = 0 THEN [i |-> st.i + 1, out |-> Append(st.out, s[st.i])]
  ELSE [i |-> e + 1, out |-> st.out \o AttachmentMarkup(attachment)]

RECURSIVE ReplaceImg(_, _, _)
\* output.replace(imgPattern, markup) for one attachment; st = [i, out].
ReplaceImg(s, st, attachment) ==
  IF st.i > Len(s) THEN st.out
  ELSE ReplaceImg(s,
                  ReplaceImgStepAt(s, st,
                                   ImgMatchEnd(s, st.i, attachment.placeholderUrl),
                                   attachment),
                  attachment)

RECURSIVE ReplaceAll(_, _, _)
\* The loop over attachments.
ReplaceAll(html, attachments, k) ==
  IF k > Len(attachments) THEN html
  ELSE ReplaceAll(ReplaceImg(html, [i |-> 1, out |-> <<>>], attachments[k]),
                  attachments, k + 1)

replaceImagePlaceholders(html, attachments) ==
  IF Len(attachments) = 0 THEN html ELSE ReplaceAll(html, attachments, 1)

\* ------------------------------------------------------------ note texts
\* The pieces a note body is composed of.
EmbedImg1 == <<"!", "[", "[">> \o Img1Path \o <<"]", "]">>
EmbedImg2 == <<"!", "[", "[">> \o Img2Path \o <<"]", "]">>
EmbedImg3 == <<"!", "[", "[">> \o Img3Path \o <<"]", "]">>
EmbedImg5 == <<"!", "[", "[">> \o Img5Path \o <<"]", "]">>
MdImg1 == <<"!", "[", "x", "]", "(", "a", ".", "png", ")">>
MdHolder == <<"!", "[", "x", "]", "(", IMAGE_ATTACHMENT_PREFIX, "z", ".", "png", ")">>
LinkOther == <<"[", "[", "o", "]", "]">>
LinkSelf == <<"[", "[", "s", "|", "me", "]", "]">>
LinkRemote == <<"[", "[", "r", "]", "]">>
LinkOtherHeading == <<"[", "[", "o", "#", "h", "]", "]">>
EmbedNote == <<"!", "[", "[", "o", "]", "]">>
LinkHead == <<"[", "[", "o", "|">>
FenceBT == <<"\n", "BT3", "\n">>
FenceTL == <<"\n", "TL3", "\n">>

\* The pieces of the notes about images.
ImagePieces == {EmbedImg1, EmbedImg2, EmbedImg3, EmbedImg5, MdImg1, FenceBT, FenceTL}

\* The pieces of the notes about links.
TokenPieces ==
  {LinkOther, LinkRemote, LinkOtherHeading, EmbedNote, LinkHead, EmbedImg1, FenceBT, FenceTL}

RECURSIVE Flatten(_)
Flatten(ps) == IF Len(ps) = 0 THEN <<>> ELSE ps[1] \o Flatten(Tail(ps))

\* --------------------------------------------------------------- the state

\* Remote page ids: 1 is the page of the other note, 2 and 3 are pages of the
\* active note's title; each may exist before the first run.  Later ids are
\* handed out by Create.
FirstNewId == 4
PageIds == 1..(FirstNewId + MaxRuns - 1)

SelfTitle == FileBasename(SelfPath)
OtherTitle == FileBasename(OtherPath)

\* The title of a remote page that has no note in the vault.
RemoteTitle == <<"r">>

NoPage == [exists |-> FALSE, title |-> <<>>, version |-> 0, body |-> <<>>]

VARIABLES
  note,         \* the active note's body, a sequence of pieces
  frontmatter,  \* per note file: the page id the metadata cache holds under the
                \* configured key (NoId: none)
  fileMeta,     \* per note file: the frontmatter block of the file's text
  settings,     \* the plugin settings
  pages,        \* the remote space: page id -> page
  remoteAtts,   \* the remote attachments: a set of <<page id, filename>>
  nextId,       \* the id the remote gives the next created page
  run,          \* per sync invocation: the locals of syncActiveNote/syncFile
  history,      \* the summaries of the finished invocations, oldest first
  faults        \* the number of failed I/O calls so far

vars == <<note, frontmatter, fileMeta, settings, pages, remoteAtts, nextId, run, history, faults>>

\* The invocations of the sync command.
Procs == DOMAIN run

\* The invocation of a sitting with one command at a time.
OneAtATime == {1}

\* The invocations of a sitting where the command is given again before the
\* first one has ended.
Overlapping == {1, 2}

\* workspace.getActiveFile(): the first invocation finds the note s active,
\* a later one the note s or the note o.
ActiveFiles(p) == IF p = 1 THEN {SelfPath} ELSE NoteFiles

\* file.basename
getTitleForFile(file) == FileBasename(file)

noteBody == Flatten(note)

\* The body of the other note: an embed of the image a.png of folder d2.
otherBody == EmbedImg2

\* The locals of one invocation.  reqs is the log of its exchanges; fresh tells
\* whether it started without stored page id and without remote page of the
\* note's title.
IdleRun ==
  [pc |-> "idle", markdown |-> <<>>, attachments |-> <<>>, pending |-> {},
   resolved |-> EmptyMap, linked |-> <<>>, body |-> <<>>,
   pageIdFromFrontmatter |-> NoId, results |-> {}, existing |-> NoId,
   pageId |-> NoId, version |-> 0, resolvedPageId |-> NoId, attIdx |-> 0,
   attTarget |-> "", reqs |-> <<>>, fresh |-> FALSE, file |-> SelfPath]

\* One logged exchange: the request (or local write) and the status of its
\* answer.  id and version are the answer's where the request has none.
Exchange(op, id, version, title, body, token, status) ==
  [op |-> op, id |-> id, version |-> version, title |-> title, body |-> body,
   token |-> token, status |-> status, path |-> "", ancestors |-> <<>>]

Log(r, q) == [r EXCEPT !.reqs = Append(@, q)]

\* -------------------------------------------------- frontmatter accessors
\* The key under which the page id is stored; <<>> when the setting is blank.
FrontmatterKey == IF settings.keySet THEN <<"confluencePageId">> ELSE <<>>

getPageIdFromFrontmatter(file) ==
  IF FrontmatterKey = <<>> THEN NoId
  ELSE IF file \in NoteFiles THEN frontmatter[file]
  ELSE NoId

\* vault.read
FileContent(file) ==
  IF file = SelfPath THEN RenderNote(fileMeta[file], noteBody)
  ELSE IF file \in NoteFiles THEN RenderNote(fileMeta[file], otherBody)
  ELSE <<"binary">>

RECURSIVE SkipS(_, _)
\* s* of the key pattern: the first index from i on that is not the letter s
SkipS(line, i) ==
  IF i <= Len(line) /\ line[i] = "s" THEN SkipS(line, i + 1) ELSE i

\* The tail of the key pattern, (.+?)\\s*$, from index c on: the captured
\* group, <<>> when the line does not match.
MatchValue(line, c) ==
  LET E == {k \in (c + 1)..Len(line) :
              line[k] = "\\" /\ SkipS(line, k + 1) = Len(line) + 1}
  IN  IF E # {} THEN SubSeq(line, c, Min(E) - 1) ELSE <<>>

\* :\\s* at index b, then the tail.
MatchColon(line, b) ==
  IF b + 1 <= Len(line) /\ line[b] = ":" /\ line[b + 1] = "\\"
  THEN MatchValue(line, SkipS(line, b + 2))
  ELSE <<>>

\* KEY\\s* at index a, then the rest.
MatchKey(line, key, a) ==
  IF /\ SubSeq(line, a, a + Len(key) - 1) = key
     /\ a + Len(key) <= Len(line) /\ line[a + Len(key)] = "\\"
  THEN MatchColon(line, SkipS(line, a + Len(key) + 1))
  ELSE <<>>

\* line.match(keyPattern) for the pattern the template literal builds,
\* ^\\s*KEY\\s*:\\s*(.+?)\\s*$ : each \\ is a literal backslash and s* a run of
\* the letter s.  Returns the captured group, <<>> when the line does not match.
KeyPatternMatch(line, key) ==
  IF Len(line) >= 1 /\ line[1] = "\\" THEN MatchKey(line, key, SkipS(line, 2))
  ELSE <<>>

\* .replace(/['"]$/, "") after the leading quote is gone, then trim
StripTrailingQuote(a) ==
  Trim(IF a # <<>> /\ a[Len(a)] \in {"'", "\""} THEN SubSeq(a, 1, Len(a) - 1) ELSE a)

\* raw.replace(/^['"]|['"]$/g, "").trim()
StripQuotes(raw) ==
  StripTrailingQuote(IF raw # <<>> /\ raw[1] \in {"'", "\""} THEN Tail(raw) ELSE raw)

RECURSIVE ExtractFrom(_, _, _)
\* The loop over the lines of the frontmatter block.
ExtractFrom(lines, i, key) ==
  IF i > Len(lines) THEN <<>>
  ELSE IF Trim(lines[i]) \in {<<"---">>, <<"...">>} THEN <<>>
  ELSE IF KeyPatternMatch(lines[i], key) # <<>>
  THEN StripQuotes(Trim(KeyPatternMatch(lines[i], key)))
  ELSE ExtractFrom(lines, i + 1, key)

ExtractLines(lines, key) ==
  IF Len(lines) < 2 THEN <<>> ELSE ExtractFrom(lines, 2, key)

\* The value as lexemes; <<>> is null.
extractFrontmatterValue(content, key) ==
  IF ~(content # <<>> /\ content[1] = "---") THEN <<>>
  ELSE ExtractLines(SplitOn(content, "\n"), key)

RECURSIVE StrToNum(_, _)
\* The page id a digit string names.
StrToNum(str, acc) ==
  IF str = <<>> THEN acc
  ELSE StrToNum(Tail(str), 10 * acc + (CHOOSE d \in 0..9 : Digit[d + 1] = str[1]))

\* The page id the raw value names, NoId for null.
RawPageId(raw) == IF raw = <<>> THEN NoId ELSE StrToNum(raw, 0)

getPageIdFromFrontmatterAsync(file) ==
  IF getPageIdFromFrontmatter(file) # NoId THEN getPageIdFromFrontmatter(file)
  ELSE IF FrontmatterKey = <<>> THEN NoId
  ELSE RawPageId(extractFrontmatterValue(FileContent(file), FrontmatterKey))

\* ------------------------------------------------------------ the remote
\* GET content?title=&spaceKey=: the ids of the pages of that title, in the
\* remote's order.
SearchResults(title) == {i \in PageIds : pages[i].exists /\ pages[i].title = title}

\* Mutant of FirstResult: the last result instead of the first.
LastResult(title) ==
  IF {i \in PageIds : pages[i].exists /\ pages[i].title = title} = {} THEN NoId
  ELSE Max({i \in PageIds : pages[i].exists /\ pages[i].title = title})

\* results[0] ?? null, NoId for null; the remote lists pages by ascending id.
FirstOf(results) == IF results = {} THEN NoId ELSE Min(results)

\* findPageByTitle's result for a successful search.
FirstResult(title) == FirstOf(SearchResults(title))


\* --------------------------------------------------------------- actions
Active(p) == run[p].pc # "idle"

Started == Len(history) + Cardinality({p \in Procs : Active(p)})

\* An I/O call fails only while the fault budget lasts.
MayFail == faults < MaxFaults

\* Mutant of Throw: the error is swallowed and syncFile goes on to the
\* write-back.
ThrowSwallowed(p, r) == run' = [run EXCEPT ![p] = [r EXCEPT !.pc = "writeback"]]

\* An exception leaves syncFile.
Throw(p, r) == run' = [run EXCEPT ![p] = [r EXCEPT !.pc = "failed"]]

Fail(p, r) ==
  /\ MayFail
  /\ faults' = faults + 1
  /\ Throw(p, r)

\* Mutant of IsBlank: a value of white space only counts as set.
IsEmpty(value) == value = <<>>

\* !value.trim()
IsBlank(value) == Trim(value) = <<>>

\* The names of the required settings that are blank, in the order of the
\* checks.
getMissingSettings ==
  (IF IsBlank(settings.baseUrl) THEN <<<<"base URL">>>> ELSE <<>>)
    \o (IF IsBlank(settings.spaceKey) THEN <<<<"space key">>>> ELSE <<>>)
    \o (IF IsBlank(settings.authEmail) THEN <<<<"auth email">>>> ELSE <<>>)
    \o (IF IsBlank(settings.apiToken) THEN <<<<"API token">>>> ELSE <<>>)

\* The notice that names the missing settings.
ConfigureNotice(missing) ==
  <<"Configure Confluence settings: ">> \o JoinWith(missing, ", ") \o <<".">>

\* syncActiveNote with a required setting missing: one notice, then return.
ConfigError(p) ==
  /\ run[p].pc = "idle"
  /\ Started < MaxRuns
  /\ getMissingSettings # <<>>
  /\ history' = Append(history,
                       [outcome |-> "unconfigured",
                        notice |-> ConfigureNotice(getMissingSettings),
                        reqs |-> <<>>, fresh |-> FALSE])
  /\ UNCHANGED <<note, frontmatter, fileMeta, settings, pages, remoteAtts, nextId, run, faults>>

\* syncActiveNote up to the call of syncFile: the command callback.
StartSync(p) ==
  /\ run[p].pc = "idle"
  /\ Started < MaxRuns
  /\ getMissingSettings = <<>>
  /\ \E file \in ActiveFiles(p) :
       run' = [run EXCEPT ![p] =
                 [IdleRun EXCEPT !.pc = "read",
                                 !.file = file,
                                 !.fresh = /\ getPageIdFromFrontmatter(file) = NoId
                                           /\ SearchResults(FileBasename(file)) = {}]]
  /\ UNCHANGED <<note, frontmatter, fileMeta, settings, pages, remoteAtts, nextId, history, faults>>

\* The run after resolveImageEmbeds returned e: the links of e.markdown are
\* scanned and the resolution of every distinct base target is started.
WithImages(r, e) ==
  [r EXCEPT !.pc = "links",
            !.markdown = e.markdown,
            !.attachments = e.attachments,
            !.pending = IF settings.convertWikiLinks
                        THEN LinkTargets(LinkOccurrences(e.markdown)) ELSE {},
            !.resolved = EmptyMap]

\* syncFile from vault.read to the fan-out of resolveWikiLinks: strip the
\* frontmatter, resolve the image embeds, scan the links.
ReadNote(p) ==
  /\ run[p].pc = "read"
  /\ run' = [run EXCEPT ![p] =
               WithImages(@, resolveImageEmbeds(stripFrontmatter(FileContent(run[p].file)),
                                               run[p].file))]
  /\ UNCHANGED <<note, frontmatter, fileMeta, settings, pages, remoteAtts, nextId, history, faults>>

\* targetFile ? targetFile.basename : baseTarget
TitleOf(targetFile, baseTarget) ==
  IF targetFile # NoFile THEN FileBasename(targetFile) ELSE baseTarget

\* resolveConfluenceUrlForTarget: the title searched for when the target has
\* no stored page id.
TargetTitle(baseTarget) == TitleOf(resolveLinkTargetFile(baseTarget, SelfPath), baseTarget)

\* Mutant of StoredPageId: the target's file is never asked for its page id.
NoStoredPageId(targetFile) == NoId

\* The stored page id of targetFile, NoId when there is none.
StoredPageId(targetFile) ==
  IF targetFile # NoFile THEN getPageIdFromFrontmatterAsync(targetFile) ELSE NoId

TargetPageId(baseTarget) == StoredPageId(resolveLinkTargetFile(baseTarget, SelfPath))

\* resolveConfluenceUrlForTarget for a target whose file stores a page id.
ResolveTargetLocal(p, t) ==
  /\ run[p].pc = "links"
  /\ t \in run[p].pending
  /\ TargetPageId(t) # NoId
  /\ run' = [run EXCEPT ![p] =
               [@ EXCEPT !.pending = @ \ {t},
                         !.resolved = MapSet(@, t, getPageUrl(TargetPageId(t)))]]
  /\ UNCHANGED <<note, frontmatter, fileMeta, settings, pages, remoteAtts, nextId, history, faults>>

\* existing ? client.getPageUrl(existing.id) : null
UrlOrNull(existing) == IF existing # NoId THEN getPageUrl(existing) ELSE NoUrl

\* The title search of a link target.
LinkSearch(t, status) == Exchange("SEARCH", NoId, 0, TargetTitle(t), <<>>, "link", status)

\* resolveConfluenceUrlForTarget for a target without stored page id: the
\* title search and its answer.
ResolveTargetSearch(p, t) ==
  /\ run[p].pc = "links"
  /\ t \in run[p].pending
  /\ TargetPageId(t) = NoId
  /\ \/ Fail(p, [Log(run[p], LinkSearch(t, "500")) EXCEPT !.pending = @ \ {t}])
     \/ /\ run' = [run EXCEPT ![p] =
                     [Log(@, LinkSearch(t, "2xx"))
                        EXCEPT !.pending = @ \ {t},
                               !.resolved = MapSet(@, t, UrlOrNull(FirstResult(TargetTitle(t))))]]
        /\ UNCHANGED faults
  /\ UNCHANGED <<note, frontmatter, fileMeta, settings, pages, remoteAtts, nextId, history>>

\* resolveConfluenceUrlForTarget of a target that was still in vault.read
\* of its file when the search of another target threw: Promise.all has
\* rejected and syncFile has thrown, but nothing cancels this resolution, and
\* its title search is sent; the answer is dropped.  (A target that reads no
\* file sent its search during the fan-out, before any answer.)
ResolveTargetLate(p, t) ==
  /\ run[p].pc = "failed"
  /\ t \in run[p].pending
  /\ resolveLinkTargetFile(t, run[p].file) # NoFile
  /\ FrontmatterKey # <<>>
  /\ TargetPageId(t) = NoId
  /\ \E status \in {"2xx", "500"} :
       run' = [run EXCEPT ![p] = [Log(@, LinkSearch(t, status)) EXCEPT !.pending = @ \ {t}]]
  /\ UNCHANGED <<note, frontmatter, fileMeta, settings, pages, remoteAtts, nextId, history, faults>>

\* Mutant of IdentityBranch: the page id of the frontmatter is not used.
IdentityBySearch(pageIdFromFrontmatter) == "search"

\* if (pageIdFromFrontmatter) ... else ...
IdentityBranch(pageIdFromFrontmatter) ==
  IF pageIdFromFrontmatter # NoId THEN "get" ELSE "search"

\* The run after resolveWikiLinks returned linkedContent: the conversion, the
\* placeholder replacement and the branch on the note's own page id.
Converted(r, linkedContent, pageIdFromFrontmatter) ==
  [r EXCEPT !.linked = linkedContent,
            !.body = replaceImagePlaceholders(convertMarkdownToConfluence(linkedContent),
                                              r.attachments),
            !.pageIdFromFrontmatter = pageIdFromFrontmatter,
            !.pageId = pageIdFromFrontmatter,
            !.resolvedPageId = pageIdFromFrontmatter,
            !.pc = IdentityBranch(pageIdFromFrontmatter)]

\* Mutant of AllSettled: the substitution does not wait for the resolutions.
NoneAwaited(r) == TRUE

\* await Promise.all(...): every resolution has returned.
AllSettled(r) == r.pending = {}

\* resolveWikiLinks after Promise.all: the substitution; then the conversion,
\* the placeholder replacement and the read of the note's own page id.
FinishLinks(p) ==
  /\ run[p].pc = "links"
  /\ AllSettled(run[p])
  /\ run' = [run EXCEPT ![p] =
               Converted(@,
                         resolveWikiLinks(run[p].markdown, settings.convertWikiLinks,
                                          LinkOccurrences(run[p].markdown),
                                          run[p].resolved),
                         getPageIdFromFrontmatter(run[p].file))]
  /\ UNCHANGED <<note, frontmatter, fileMeta, settings, pages, remoteAtts, nextId, history, faults>>

\* The title search for the note's own page.
OwnSearch(r, status) ==
  Exchange("SEARCH", NoId, 0, getTitleForFile(r.file), <<>>, "identity", status)

\* Mutant of Found: the result of the title search is ignored.
FoundNothing(r, results, existing) ==
  [r EXCEPT !.results = results, !.existing = NoId, !.pageId = NoId, !.pc = "create"]

\* Mutant of Found: a run that finds no page ends without creating one.
FoundOrGiveUp(r, results, existing) ==
  [r EXCEPT !.results = results, !.existing = existing, !.pageId = existing,
            !.pc = IF existing # NoId THEN "get" ELSE "done"]

\* if (existing) updatePageById(existing.id, ...) else createPage(...)
Found(r, results, existing) ==
  [r EXCEPT !.results = results,
            !.existing = existing,
            !.pageId = existing,
            !.pc = IF existing # NoId THEN "get" ELSE "create"]

\* findPageByTitle for the note's own title (syncFile, no id in frontmatter).
IdentitySearch(p) ==
  /\ run[p].pc = "search"
  /\ \/ Fail(p, Log(run[p], OwnSearch(run[p], "500")))
     \/ /\ run' = [run EXCEPT ![p] =
                     Found(Log(@, OwnSearch(run[p], "2xx")),
                           SearchResults(getTitleForFile(run[p].file)),
                           FirstResult(getTitleForFile(run[p].file)))]
        /\ UNCHANGED faults
  /\ UNCHANGED <<note, frontmatter, fileMeta, settings, pages, remoteAtts, nextId, history>>

\* GET content/{id}: the answer's version number is logged.
Fetch(id, version, status) == Exchange("GET", id, version, <<>>, <<>>, "", status)

\* Mutant of OnMissingPage: a missing page falls back to Create.
OnMissingPageCreate(r) == [r EXCEPT !.pc = "create"]

\* request throws on a non-2xx answer: updatePageById ends with the error.
OnMissingPage(r) == [r EXCEPT !.pc = "failed"]

\* updatePageById, first half: getPageById.  A missing page answers 404.
GetPage(p) ==
  /\ run[p].pc = "get"
  /\ \/ Fail(p, Log(run[p], Fetch(run[p].pageId, 0, "500")))
     \/ /\ ~pages[run[p].pageId].exists
        /\ run' = [run EXCEPT ![p] = OnMissingPage(Log(@, Fetch(run[p].pageId, 0, "404")))]
        /\ UNCHANGED faults
     \/ /\ pages[run[p].pageId].exists
        /\ run' = [run EXCEPT ![p] =
                     [Log(@, Fetch(run[p].pageId, pages[run[p].pageId].version, "2xx"))
                        EXCEPT !.version = pages[run[p].pageId].version,
                               !.pc = "put"]]
        /\ UNCHANGED faults
  /\ UNCHANGED <<note, frontmatter, fileMeta, settings, pages, remoteAtts, nextId, history>>

\* Mutant of SubmittedVersion: the fetched version is submitted unchanged.
SameVersion(versionNumber) == versionNumber

\* version: { number: versionNumber + 1 }
SubmittedVersion(versionNumber) == versionNumber + 1

\* PUT content/{id}
Put(r, status) ==
  Exchange("PUT", r.pageId, SubmittedVersion(r.version), getTitleForFile(r.file), r.body, "",
           status)

\* The remote accepts the successor of the page's current version.
Accepts(r) ==
  pages[r.pageId].exists /\ SubmittedVersion(r.version) = pages[r.pageId].version + 1

\* Mutant of PageWritten: a page that was created is then updated.
PageWrittenThenUpdated(r, id) ==
  [r EXCEPT !.resolvedPageId = id, !.pageId = id,
            !.pc = IF r.pc = "create" THEN "get" ELSE "writeback"]

\* resolvedPageId = updated.id / created.id
PageWritten(r, id) == [r EXCEPT !.resolvedPageId = id, !.pc = "writeback"]

\* updatePageById, second half: the PUT.
PutPage(p) ==
  /\ run[p].pc = "put"
  /\ \/ /\ Fail(p, Log(run[p], Put(run[p], "500")))
        /\ UNCHANGED pages
     \/ IF Accepts(run[p])
        THEN /\ pages' = [pages EXCEPT ![run[p].pageId] =
                            [exists |-> TRUE, title |-> getTitleForFile(run[p].file),
                             version |-> SubmittedVersion(run[p].version),
                             body |-> run[p].body]]
             /\ run' = [run EXCEPT ![p] =
                          PageWritten(Log(@, Put(run[p], "2xx")), run[p].pageId)]
             /\ UNCHANGED faults
        ELSE /\ Throw(p, Log(run[p], Put(run[p], "409")))
             /\ UNCHANGED <<pages, faults>>
  /\ UNCHANGED <<note, frontmatter, fileMeta, settings, remoteAtts, nextId, history>>

\* if (parentPageId) payload.ancestors = [{ id: parentPageId }]
Ancestors(parentPageId) == IF parentPageId # NoId THEN <<parentPageId>> ELSE <<>>

\* POST content with settings.parentPageId || undefined: the answer's id is
\* logged.
Create(r, id, status) ==
  [Exchange("CREATE", id, 1, getTitleForFile(r.file), r.body, "", status) EXCEPT
     !.ancestors = Ancestors(settings.parentPageId)]

\* createPage: the remote answers with the new page.
CreatePage(p) ==
  /\ run[p].pc = "create"
  /\ nextId \in PageIds
  /\ \/ /\ Fail(p, Log(run[p], Create(run[p], NoId, "500")))
        /\ UNCHANGED <<pages, nextId>>
     \/ /\ pages' = [pages EXCEPT ![nextId] =
                       [exists |-> TRUE, title |-> getTitleForFile(run[p].file),
                        version |-> 1, body |-> run[p].body]]
        /\ nextId' = nextId + 1
        /\ run' = [run EXCEPT ![p] =
                     PageWritten(Log(@, Create(run[p], nextId, "2xx")), nextId)]
        /\ UNCHANGED faults
  /\ UNCHANGED <<note, frontmatter, fileMeta, settings, remoteAtts, history>>

\* if (resolvedPageId && attachments.length) uploadAttachments(...)
AfterWriteBack(r) ==
  IF r.resolvedPageId # NoId /\ Len(r.attachments) > 0
  THEN [r EXCEPT !.pc = "att_read", !.attIdx = 1]
  ELSE [r EXCEPT !.pc = "done"]

\* Mutant of StoredId: the id read before the page write is stored.
StoredIdBeforeWrite(r) == r.pageIdFromFrontmatter

\* frontmatter[frontmatterKey] = resolvedPageId
StoredId(r) == r.resolvedPageId

\* processFrontMatter
WriteFrontmatter(r, status) ==
  Exchange("WRITEBACK", StoredId(r), 0, <<>>, <<>>, "", status)

\* processFrontMatter: store the resolved page id under the configured key.
WriteBack(p) ==
  /\ run[p].pc = "writeback"
  /\ IF run[p].resolvedPageId # NoId /\ FrontmatterKey # <<>>
     THEN \/ /\ Fail(p, Log(run[p], WriteFrontmatter(run[p], "threw")))
             /\ UNCHANGED <<frontmatter, fileMeta>>
          \/ /\ frontmatter' = [frontmatter EXCEPT ![run[p].file] = StoredId(run[p])]
             /\ fileMeta' = [fileMeta EXCEPT ![run[p].file] = WithPageId(@, StoredId(run[p]))]
             /\ run' = [run EXCEPT ![p] =
                          AfterWriteBack(Log(@, WriteFrontmatter(run[p], "ok")))]
             /\ UNCHANGED faults
     ELSE /\ run' = [run EXCEPT ![p] = AfterWriteBack(@)]
          /\ UNCHANGED <<frontmatter, fileMeta, faults>>
  /\ UNCHANGED <<note, settings, pages, remoteAtts, nextId, history>>

\* Mutant of CurrentAttachment: the loop runs from the last attachment.
CurrentAttachmentFromLast(r) == r.attachments[Len(r.attachments) + 1 - r.attIdx]

\* The attachment the loop of uploadAttachments is at.
CurrentAttachment(r) == r.attachments[r.attIdx]

\* uploadAttachments: vault.readBinary of the next attachment.
AttRead(p) ==
  /\ run[p].pc = "att_read"
  /\ \/ Fail(p, run[p])
     \/ /\ run' = [run EXCEPT ![p] = [@ EXCEPT !.pc = "att_find"]]
        /\ UNCHANGED faults
  /\ UNCHANGED <<note, frontmatter, fileMeta, settings, pages, remoteAtts, nextId, history>>

\* Mutant of FindAttachment: the lookup is addressed to the page id read from
\* the frontmatter before the page write.
FindAttachmentAtStoredId(r, status) ==
  Exchange("ATT_FIND", r.pageIdFromFrontmatter, 0, CurrentAttachment(r).filename, <<>>, "",
           status)

\* GET content/{pageId}/child/attachment?filename=
FindAttachment(r, status) ==
  Exchange("ATT_FIND", r.resolvedPageId, 0, CurrentAttachment(r).filename, <<>>, "", status)

\* Mutant of UploadPath: every upload goes to the create endpoint.
UploadPathCreate(existing) == "create"

\* existing ? .../attachment/{id}/data : .../attachment
UploadPath(existing) == IF existing THEN "data" ELSE "create"

\* uploadAttachment: findAttachmentByFilename and the choice of the endpoint.
AttFind(p) ==
  /\ run[p].pc = "att_find"
  /\ \/ Fail(p, Log(run[p], FindAttachment(run[p], "500")))
     \/ /\ run' = [run EXCEPT ![p] =
                     [Log(@, FindAttachment(run[p], "2xx"))
                        EXCEPT !.attTarget =
                                 UploadPath(<<run[p].resolvedPageId,
                                              CurrentAttachment(run[p]).filename>>
                                              \in remoteAtts),
                               !.pc = "att_post"]]
        /\ UNCHANGED faults
  /\ UNCHANGED <<note, frontmatter, fileMeta, settings, pages, remoteAtts, nextId, history>>

\* The answers of the remote to an attachment POST.
Responses == {"2xx", "403 XSRF check failed", "403", "500"}

\* status >= 200 && status < 300
Is2xx(response) == response = "2xx"

\* Mutant of IsTokenRejection: every 403 counts as a token rejection.
IsAny403(response) == response \in {"403 XSRF check failed", "403"}

\* response.status === 403 && response.text.includes("XSRF check failed")
IsTokenRejection(response) == response = "403 XSRF check failed"

\* postAttachment with the X-Atlassian-Token header value token.
PostAttachment(r, token, status) ==
  [Exchange("ATT_POST", r.resolvedPageId, 0, CurrentAttachment(r).filename, <<>>,
            token, status) EXCEPT !.path = r.attTarget]

\* uploadAttachments after a successful upload: the next attachment or the end.
AfterUpload(r) ==
  IF r.attIdx < Len(r.attachments)
  THEN [r EXCEPT !.pc = "att_read", !.attIdx = @ + 1]
  ELSE [r EXCEPT !.pc = "done"]

\* The remote's attachments after it stored the current one.
Stored(r) == remoteAtts \cup {<<r.resolvedPageId, CurrentAttachment(r).filename>>}

\* uploadAttachment: the first postAttachment, token "nocheck".
AttPost(p) ==
  /\ run[p].pc = "att_post"
  /\ \E response \in Responses :
       IF IsTokenRejection(response)
       THEN /\ run' = [run EXCEPT ![p] =
                         [Log(@, PostAttachment(run[p], "nocheck", response))
                            EXCEPT !.pc = "att_retry"]]
            /\ UNCHANGED <<remoteAtts, faults>>
       ELSE IF Is2xx(response)
       THEN /\ run' = [run EXCEPT ![p] =
                         AfterUpload(Log(@, PostAttachment(run[p], "nocheck", response)))]
            /\ remoteAtts' = Stored(run[p])
            /\ UNCHANGED faults
       ELSE /\ Fail(p, Log(run[p], PostAttachment(run[p], "nocheck", response)))
            /\ UNCHANGED remoteAtts
  /\ UNCHANGED <<note, frontmatter, fileMeta, settings, pages, nextId, history>>

\* uploadAttachment: the retry, token "no-check".
AttRetry(p) ==
  /\ run[p].pc = "att_retry"
  /\ \E retry \in Responses :
       IF Is2xx(retry)
       THEN /\ run' = [run EXCEPT ![p] =
                         AfterUpload(Log(@, PostAttachment(run[p], "no-check", retry)))]
            /\ remoteAtts' = Stored(run[p])
            /\ UNCHANGED faults
       ELSE /\ Fail(p, Log(run[p], PostAttachment(run[p], "no-check", retry)))
            /\ UNCHANGED remoteAtts
  /\ UNCHANGED <<note, frontmatter, fileMeta, settings, pages, nextId, history>>

\* Mutant of NoticeOf: the success notice whatever syncFile did.
NoticeAlwaysSynced(pc) == <<"Synced to Confluence.">>

\* new Notice(...) after syncFile returned or threw
NoticeOf(pc) ==
  IF pc = "done" THEN <<"Synced to Confluence.">>
  ELSE <<"Confluence sync failed. Check console for details.">>

\* syncActiveNote after syncFile returned or threw: the notice.
Finish(p) ==
  /\ run[p].pc \in {"done", "failed"}
  /\ history' = Append(history,
                       [outcome |-> run[p].pc, notice |-> NoticeOf(run[p].pc),
                        reqs |-> run[p].reqs, fresh |-> run[p].fresh])
  /\ run' = [run EXCEPT ![p] = IdleRun]
  /\ UNCHANGED <<note, frontmatter, fileMeta, settings, pages, remoteAtts, nextId, faults>>

\* ---------------------------------------------------------- specifications
\* The note bodies of the sync specification.
NoteTexts ==
  {<<>>, <<LinkSelf>>, <<LinkOther, EmbedImg1>>, <<EmbedImg1, EmbedImg2>>,
   <<LinkSelf, LinkOther>>, <<MdImg1, EmbedImg2>>}

\* The remote space before the first run.
\* The required settings, all set.
Configured ==
  [baseUrl |-> <<"https://wiki">>, spaceKey |-> <<"SP">>, authEmail |-> <<"e">>,
   apiToken |-> <<"t">>]

\* The settings: the required ones of c and the options.
Settings(c, convertWikiLinks, keySet) ==
  [baseUrl |-> c.baseUrl, spaceKey |-> c.spaceKey, authEmail |-> c.authEmail,
   apiToken |-> c.apiToken, parentPageId |-> 0, convertWikiLinks |-> convertWikiLinks,
   keySet |-> keySet]

InitialPages(other, self2, self3) ==
  [i \in PageIds |->
     IF i = 1 /\ other
     THEN [exists |-> TRUE, title |-> OtherTitle, version |-> 1, body |-> <<>>]
     ELSE IF (i = 2 /\ self2) \/ (i = 3 /\ self3)
     THEN [exists |-> TRUE, title |-> SelfTitle, version |-> i + 1, body |-> <<>>]
     ELSE NoPage]

Init ==
  /\ note \in NoteTexts
  /\ frontmatter \in [NoteFiles -> {NoId, 1, 2, 3}]
  /\ frontmatter[SelfPath] \in {NoId, 2, 3}
  /\ frontmatter[OtherPath] \in {NoId, 1}
  /\ fileMeta = [f \in NoteFiles |-> PlainMeta(frontmatter[f])]
  /\ \E c \in BOOLEAN, k \in BOOLEAN : settings = Settings(Configured, c, k)
  /\ \E self2 \in BOOLEAN, self3 \in BOOLEAN : pages = InitialPages(TRUE, self2, self3)
  /\ remoteAtts = {}
  /\ nextId = FirstNewId
  /\ run = [p \in OneAtATime |-> IdleRun]
  /\ history = <<>>
  /\ faults = 0

\* One step of invocation p.
Step(p) ==
    \/ StartSync(p)
    \/ ReadNote(p)
    \/ \E t \in run[p].pending : ResolveTargetLocal(p, t)
    \/ \E t \in run[p].pending : ResolveTargetSearch(p, t)
    \/ \E t \in run[p].pending : ResolveTargetLate(p, t)
    \/ FinishLinks(p)
    \/ IdentitySearch(p)
    \/ GetPage(p)
    \/ PutPage(p)
    \/ CreatePage(p)
    \/ WriteBack(p)
    \/ AttRead(p)
    \/ AttFind(p)
    \/ AttPost(p)
    \/ AttRetry(p)
    \/ Finish(p)

Next == \E p \in OneAtATime : Step(p)

Spec == Init /\ [][Next]_vars

\* The values a required setting is given: empty, white space, set.
SettingValues(set) == {<<>>, <<" ">>, set}

\* The sync command under every configuration of the required settings.
InitConfig ==
  /\ note \in {<<LinkOther, EmbedImg1>>, <<LinkSelf, LinkOther>>}
  /\ frontmatter \in [NoteFiles -> {NoId, 1, 2}]
  /\ frontmatter[SelfPath] \in {NoId, 2}
  /\ frontmatter[OtherPath] \in {NoId, 1}
  /\ fileMeta = [f \in NoteFiles |-> PlainMeta(frontmatter[f])]
  /\ \E b \in SettingValues(Configured.baseUrl), k \in SettingValues(Configured.spaceKey),
        e \in SettingValues(Configured.authEmail), t \in SettingValues(Configured.apiToken) :
       settings = Settings([baseUrl |-> b, spaceKey |-> k, authEmail |-> e, apiToken |-> t],
                           TRUE, TRUE)
  /\ \E self2 \in BOOLEAN : pages = InitialPages(TRUE, self2, FALSE)
  /\ remoteAtts = {}
  /\ nextId = FirstNewId
  /\ run = [p \in OneAtATime |-> IdleRun]
  /\ history = <<>>
  /\ faults = 0

NextConfig == Next \/ \E p \in OneAtATime : ConfigError(p)

SpecConfig == InitConfig /\ [][NextConfig]_vars

\* The blocks of the other note's text with the cache holding no page id for
\* it (the cache lags behind the file, or the block is not valid YAML).
UncachedMetas ==
  {Meta(form, 2, legacy, NoId) : form \in {"none", "plain", "quoted", "escaped"},
                                 legacy \in {NoId, 3}}

\* The sync command over the forms of the frontmatter blocks: the other note
\* with the cache in step with its text or the cache empty; the synced note
\* with or without stored page id, older key and parent key.
InitMeta ==
  /\ note \in {<<LinkOther, EmbedImg1>>, <<LinkSelf, LinkOther>>, <<MdHolder, EmbedImg1>>}
  /\ \E other \in {PlainMeta(2)} \cup UncachedMetas, id \in {NoId, 2},
        legacy \in {NoId, 3}, parent \in {NoId, 3} :
       /\ fileMeta = (SelfPath :> [PlainMeta(id) EXCEPT !.legacyPageId = legacy,
                                                        !.parentId = parent]
                        @@ OtherPath :> other)
       /\ frontmatter = (SelfPath :> id
                           @@ OtherPath :> IF other \in UncachedMetas THEN NoId ELSE 2)
  /\ \E parent \in {NoId, 1} :
       settings = [Settings(Configured, TRUE, TRUE) EXCEPT !.parentPageId = parent]
  /\ \E self2 \in BOOLEAN : pages = InitialPages(TRUE, self2, FALSE)
  /\ remoteAtts = {}
  /\ nextId = FirstNewId
  /\ run = [p \in OneAtATime |-> IdleRun]
  /\ history = <<>>
  /\ faults = 0

SpecMeta == InitMeta /\ [][Next]_vars

RECURSIVE SeqsUpTo(_, _)
\* The sequences over S of length at most n.
SeqsUpTo(S, n) ==
  IF n = 0 THEN {<<>>}
  ELSE LET T == SeqsUpTo(S, n - 1)
       IN  T \cup {Append(t, x) : t \in {u \in T : Len(u) = n - 1}, x \in S}

\* The text specification: every note body of at most MaxPieces pieces of
\* one kind, taken through syncFile up to the conversion.  The stored id of
\* the other note and the remote space vary for the notes about links.
InitText ==
  /\ note \in SeqsUpTo(ImagePieces, MaxPieces) \cup SeqsUpTo(TokenPieces, MaxPieces)
  /\ frontmatter \in [NoteFiles -> {NoId, 2}]
  /\ frontmatter[SelfPath] = NoId
  /\ fileMeta = [f \in NoteFiles |-> PlainMeta(frontmatter[f])]
  /\ settings = Settings(Configured, TRUE, TRUE)
  /\ \E other \in BOOLEAN, remote \in BOOLEAN :
       \* three spaces: no page, the page of o, the pages of o and r
       /\ remote => other
       /\ note \in SeqsUpTo(ImagePieces, MaxPieces) => ~other /\ frontmatter[OtherPath] = NoId
       /\ pages = [InitialPages(other, FALSE, FALSE) EXCEPT
                    ![3] = IF remote
                           THEN [exists |-> TRUE, title |-> RemoteTitle, version |-> 1,
                                 body |-> <<>>]
                           ELSE NoPage]
  /\ remoteAtts = {}
  /\ nextId = FirstNewId
  /\ run = [p \in OneAtATime |-> IdleRun]
  /\ history = <<>>
  /\ faults = 0

NextText ==
  \E p \in OneAtATime :
    \/ StartSync(p)
    \/ ReadNote(p)
    \/ \E t \in run[p].pending : ResolveTargetLocal(p, t)
    \/ \E t \in run[p].pending : ResolveTargetSearch(p, t)
    \/ \E t \in run[p].pending : ResolveTargetLate(p, t)
    \/ FinishLinks(p)

SpecText == InitText /\ [][NextText]_vars

\* A vault and a remote space of a sitting with several invocations.
InitVault ==
  /\ note \in {<<LinkSelf, LinkOther>>, <<EmbedImg1>>}
  /\ \E stored \in BOOLEAN :
       \* the note s is new, or it stores the id of its page
       /\ frontmatter = (SelfPath :> (IF stored THEN 2 ELSE NoId) @@ OtherPath :> NoId)
       /\ pages = InitialPages(TRUE, stored, FALSE)
  /\ fileMeta = [f \in NoteFiles |-> PlainMeta(frontmatter[f])]
  /\ settings = Settings(Configured, TRUE, TRUE)
  /\ remoteAtts = {}
  /\ nextId = FirstNewId

\* The sync command given twice without waiting: the callback starts
\* syncActiveNote with void, so a second invocation runs while the first is
\* at an await.
InitRace ==
  /\ InitVault
  /\ run = [p \in Overlapping |-> IdleRun]
  /\ history = <<>>
  /\ faults = 0

NextRace == \E p \in Overlapping : Step(p)

SpecRace == InitRace /\ [][NextRace]_vars

\* The sync command given one at a time, every call returning.
InitLive ==
  /\ InitVault
  /\ run = [p \in OneAtATime |-> IdleRun]
  /\ history = <<>>
  /\ faults = 0

\* The steps of syncFile up to the return of resolveWikiLinks.
Prepare(p) ==
  \/ ReadNote(p)
  \/ \E t \in run[p].pending : ResolveTargetLocal(p, t) \/ ResolveTargetSearch(p, t)
  \/ FinishLinks(p)

\* The steps of syncFile from the branch on the page id to the notice.
Publish(p) ==
  \/ IdentitySearch(p) \/ GetPage(p) \/ PutPage(p) \/ CreatePage(p) \/ WriteBack(p)
  \/ AttRead(p) \/ AttFind(p) \/ AttPost(p) \/ AttRetry(p) \/ Finish(p)

\* Every awaited call returns: an invocation that can take a step takes one.
\* The weak fairness of Prepare is written out with its enabling condition:
\* at "read" ReadNote can be taken, at "links" a resolution while one is
\* pending and FinishLinks when none is.
Returns ==
  \A p \in OneAtATime :
    /\ WF_vars(Publish(p))
    /\ \/ []<>(run[p].pc \notin {"read", "links"})
       \/ []<><<Prepare(p)>>_vars

SpecLive == InitLive /\ [][Next]_vars /\ Returns

\* ------------------------------------------------------------------ claims
\* The invocations so far, finished or not: the exchange log and the position.
Runs ==
  {[reqs |-> run[p].reqs, pc |-> run[p].pc] : p \in Procs}
    \cup {[reqs |-> history[k].reqs, pc |-> history[k].outcome] : k \in 1..Len(history)}

IsPageWrite(q) == q.op \in {"CREATE", "PUT"}

PageWrites(reqs) == SelectSeq(reqs, IsPageWrite)

IsOwnSearch(q) == q.op = "SEARCH" /\ q.token = "identity"

\* Whether the title search for the note's own page was answered.
Answered(reqs) == \E i \in 1..Len(reqs) : IsOwnSearch(reqs[i]) /\ Is2xx(reqs[i].status)

\* The id the successful page write of a log returned, NoId when there is none.
WrittenId(reqs) ==
  IF \E i \in 1..Len(reqs) : IsPageWrite(reqs[i]) /\ Is2xx(reqs[i].status)
  THEN reqs[CHOOSE i \in 1..Len(reqs) : IsPageWrite(reqs[i]) /\ Is2xx(reqs[i].status)].id
  ELSE NoId

\* C1 (as stated): from a note without stored page id and without remote page
\* of its title, successful runs issue one Create in the first run, one Update
\* and no Create in every later run, and every run submits the same body.
C1_Idempotent ==
  (/\ Len(history) > 0
   /\ history[1].fresh
   /\ \A k \in 1..Len(history) : history[k].outcome = "done")
  => \A k \in 1..Len(history) :
       /\ Len(PageWrites(history[k].reqs)) = 1
       /\ PageWrites(history[k].reqs)[1].op = (IF k = 1 THEN "CREATE" ELSE "PUT")
       /\ PageWrites(history[k].reqs)[1].body = PageWrites(history[1].reqs)[1].body

\* C2: the page to write is chosen by strict priority: a page id in the
\* frontmatter is updated without own title search and without Create;
\* otherwise the first result of the title search is updated; otherwise, on an
\* empty result, the run issues a Create.
C2_IdentityPriority ==
  \A p \in Procs :
    LET r == run[p]
        Targets == {r.reqs[i].id : i \in {j \in 1..Len(r.reqs) : r.reqs[j].op \in {"GET", "PUT"}}}
        Ops == {r.reqs[i].op : i \in 1..Len(r.reqs)}
    IN  r.pc \notin {"idle", "read", "links"} =>
          /\ r.pc \in {"search", "get", "put", "create"}
               => r.pageIdFromFrontmatter = getPageIdFromFrontmatter(SelfPath)
          /\ r.pageIdFromFrontmatter # NoId =>
               /\ \A i \in 1..Len(r.reqs) : ~IsOwnSearch(r.reqs[i])
               /\ "CREATE" \notin Ops
               /\ r.pc \notin {"search", "create"}
               /\ Targets \subseteq {r.pageIdFromFrontmatter}
          /\ r.pageIdFromFrontmatter = NoId /\ ~Answered(r.reqs) =>
               /\ Ops \cap {"GET", "PUT", "CREATE"} = {}
               /\ r.pc \in {"search", "failed"}
          /\ r.pageIdFromFrontmatter = NoId /\ Answered(r.reqs) =>
               /\ r.pc \in {"get", "create"} => r.results = SearchResults(SelfTitle)
               /\ IF r.results # {}
                  THEN /\ "CREATE" \notin Ops
                       /\ r.pc # "create"
                       /\ Targets \subseteq {Min(r.results)}
                       /\ r.pc = "get" \/ "GET" \in Ops
                  ELSE /\ Targets = {}
                       /\ r.pc = "create" \/ "CREATE" \in Ops

\* C2 witness: the title search returned two pages and the first was updated.
C2_Witness ==
  \E p \in Procs :
    /\ run[p].pageIdFromFrontmatter = NoId
    /\ run[p].results = {2, 3}
    /\ \E i \in 1..Len(run[p].reqs) :
         run[p].reqs[i].op = "PUT" /\ run[p].reqs[i].id = 2 /\ Is2xx(run[p].reqs[i].status)

\* C3: when the fetch before an update fails, the run fails: the failed GET is
\* its last exchange, and the run issues no PUT and no Create.
C3_NoFallback ==
  \A r \in Runs :
    \A i \in 1..Len(r.reqs) :
      (r.reqs[i].op = "GET" /\ ~Is2xx(r.reqs[i].status)) =>
        /\ r.pc = "failed"
        /\ i = Len(r.reqs)
        /\ \A j \in 1..Len(r.reqs) : ~IsPageWrite(r.reqs[j])

\* C3 witness: a finished run whose GET was answered 404, for a stored page id
\* and for a page found by title.
C3_Witness ==
  \E k \in 1..Len(history) :
    /\ history[k].outcome = "failed"
    /\ history[k].reqs[Len(history[k].reqs)].op = "GET"
    /\ history[k].reqs[Len(history[k].reqs)].status = "404"

\* C4: every PUT directly follows a successful GET of the same page id and
\* submits the version that GET returned plus 1.
C4_VersionBump ==
  \A r \in Runs :
    \A i \in 1..Len(r.reqs) :
      r.reqs[i].op = "PUT" =>
        /\ i > 1
        /\ r.reqs[i - 1].op = "GET"
        /\ Is2xx(r.reqs[i - 1].status)
        /\ r.reqs[i - 1].id = r.reqs[i].id
        /\ r.reqs[i].version = r.reqs[i - 1].version + 1

\* C4 witness: a page at version 3 was updated with version 4.
C4_Witness ==
  \E r \in Runs :
    \E i \in 2..Len(r.reqs) :
      /\ r.reqs[i].op = "PUT" /\ Is2xx(r.reqs[i].status) /\ r.reqs[i].version = 4
      /\ r.reqs[i - 1].op = "GET" /\ r.reqs[i - 1].version = 3

\* C5: with a page-id key configured, the exchange after a successful page
\* write is the frontmatter write of the id that write returned; once it is
\* done the frontmatter holds that id, and every attachment request of the run
\* comes after it.
C5_WriteBack ==
  \A p \in Procs :
    LET r == run[p]
        n == Len(r.reqs)
    IN  FrontmatterKey # <<>> =>
          /\ r.pc = "writeback" <=> (n > 0 /\ IsPageWrite(r.reqs[n]) /\ Is2xx(r.reqs[n].status))
          /\ \A i \in 1..n :
               r.reqs[i].op = "WRITEBACK" =>
                 /\ i > 1 /\ IsPageWrite(r.reqs[i - 1]) /\ Is2xx(r.reqs[i - 1].status)
                 /\ r.reqs[i].id = r.reqs[i - 1].id
                 /\ r.reqs[i].id # NoId
          /\ \A i \in 1..n :
               r.reqs[i].op \in {"ATT_FIND", "ATT_POST"} =>
                 \E j \in 1..(i - 1) :
                   /\ r.reqs[j].op = "WRITEBACK" /\ r.reqs[j].status = "ok"
                   /\ r.reqs[j].id = WrittenId(r.reqs)
          /\ (\E i \in 1..n : r.reqs[i].op = "WRITEBACK" /\ r.reqs[i].status = "ok")
               => /\ frontmatter[SelfPath] = WrittenId(r.reqs)
                  /\ WrittenId(r.reqs) # NoId

\* C5 witness: after a Create the new id is in the frontmatter while the first
\* attachment request has not been issued yet.
C5_Witness ==
  \E p \in Procs :
    /\ run[p].pc = "att_read"
    /\ run[p].attIdx = 1
    /\ FrontmatterKey # <<>>
    /\ \E i \in 1..Len(run[p].reqs) :
         run[p].reqs[i].op = "CREATE" /\ run[p].reqs[i].id = frontmatter[SelfPath]
    /\ frontmatter[SelfPath] >= FirstNewId

\* C6: a POST with the alternate token follows exactly a first POST of the same
\* upload that was answered 403 with "XSRF check failed"; no POST follows a
\* retry within one upload; a 2xx retry completes the upload; any other answer
\* to the retry, and any other non-2xx answer to the first POST, fails the run.
C6_RetryPolicy ==
  \A r \in Runs :
    \A i \in 1..Len(r.reqs) :
      r.reqs[i].op = "ATT_POST" =>
        /\ i > 1
        /\ r.reqs[i].token = "nocheck" =>
             /\ r.reqs[i - 1].op = "ATT_FIND"
             /\ r.reqs[i].status = "403 XSRF check failed" =>
                  IF i = Len(r.reqs) THEN r.pc = "att_retry"
                  ELSE /\ r.reqs[i + 1].op = "ATT_POST"
                       /\ r.reqs[i + 1].token = "no-check"
             /\ r.reqs[i].status \notin {"403 XSRF check failed", "2xx"} =>
                  i = Len(r.reqs) /\ r.pc = "failed"
             /\ r.reqs[i].status = "2xx" =>
                  IF i = Len(r.reqs) THEN r.pc \notin {"att_retry", "att_post"}
                  ELSE r.reqs[i + 1].op = "ATT_FIND"
        /\ r.reqs[i].token = "no-check" =>
             /\ r.reqs[i - 1].op = "ATT_POST"
             /\ r.reqs[i - 1].token = "nocheck"
             /\ r.reqs[i - 1].status = "403 XSRF check failed"
             /\ r.reqs[i - 1].title = r.reqs[i].title
             /\ r.reqs[i - 1].id = r.reqs[i].id
             /\ IF r.reqs[i].status = "2xx"
                THEN /\ <<r.reqs[i].id, r.reqs[i].title>> \in remoteAtts
                     /\ IF i = Len(r.reqs) THEN r.pc \notin {"att_retry", "att_post"}
                        ELSE r.reqs[i + 1].op = "ATT_FIND"
                ELSE i = Len(r.reqs) /\ r.pc = "failed"
        /\ r.reqs[i].token \in {"nocheck", "no-check"}

\* C6 witness: a finished run in which a first POST was rejected for its token
\* and the retry was answered 2xx.
C6_Witness ==
  \E k \in 1..Len(history) :
    /\ history[k].outcome = "done"
    /\ \E i \in 2..Len(history[k].reqs) :
         /\ history[k].reqs[i].token = "no-check"
         /\ history[k].reqs[i].status = "2xx"
         /\ history[k].reqs[i - 1].status = "403 XSRF check failed"

\* The lines of the note body, as resolveImageEmbeds receives them.
Lines0 == SplitOn(noteBody, "\n")

\* The marker of the fence that is open after line k, "" when none is.
RECURSIVE FenceAfter(_, _)
FenceAfter(lines, k) ==
  IF k = 0 THEN ""
  ELSE LET open == FenceAfter(lines, k - 1)
           m == FenceMatch(lines[k])
       IN  IF m = None THEN open
           ELSE IF open = "" THEN m
           ELSE IF m = open THEN ""
           ELSE open

\* Line k lies between an opening fence marker and its matching closing marker
\* (or the end of the text).
InsideFence(lines, k) == FenceMatch(lines[k]) = None /\ FenceAfter(lines, k - 1) # ""

\* The number of occurrences of token in line.
Count(line, token) ==
  Cardinality({i \in 1..(Len(line) - Len(token) + 1) :
                 SubSeq(line, i, i + Len(token) - 1) = token})

\* The tokens of line are the same in line k of text.
SameTokens(text, k, line, tokens) ==
  /\ Len(SplitOn(text, "\n")) = Len(Lines0)
  /\ \A t \in tokens : Count(SplitOn(text, "\n")[k], t) = Count(line, t)

\* The [[...]] link tokens of a line.
LinkTokens(line) ==
  {LinkOccurrences(line)[i].full : i \in 1..Len(LinkOccurrences(line))}

\* The embed and image tokens of the note bodies.
ImageTokens == {EmbedImg1, EmbedImg2, EmbedImg3, EmbedImg5, MdImg1}

\* The marker of the fence that is open after piece k of the note.
RECURSIVE OpenAfter(_, _)
OpenAfter(ps, k) ==
  IF k = 0 THEN ""
  ELSE LET open == OpenAfter(ps, k - 1)
       IN  IF ps[k] \notin {FenceBT, FenceTL} THEN open
           ELSE IF open = "" THEN ps[k][2]
           ELSE IF open = ps[k][2] THEN ""
           ELSE open

\* The local image file a piece refers to, NoFile for a piece that is no image
\* reference.
PieceFile(piece) ==
  CASE piece = EmbedImg1 -> Img1Path
    [] piece = EmbedImg2 -> Img2Path
    [] piece = EmbedImg3 -> Img3Path
    [] piece = EmbedImg5 -> Img5Path
    [] piece = MdImg1 -> Img1Path
    [] OTHER -> NoFile

\* The image references of the note outside code fences.
Refs == {k \in 1..Len(note) : PieceFile(note[k]) # NoFile /\ OpenAfter(note, k - 1) = ""}

\* The placeholder URL of the attachment for file.
PlaceholderOf(attachments, file) ==
  attachments[CHOOSE i \in 1..Len(attachments) : attachments[i].file = file].placeholderUrl

\* The note with every image reference outside fences replaced by the image
\* of its file's placeholder URL.
Replaced(attachments) ==
  Flatten([k \in 1..Len(note) |->
             IF k \in Refs
             THEN <<"!", "[", "]", "(">> \o PlaceholderOf(attachments, PieceFile(note[k]))
                    \o <<")">>
             ELSE note[k]])

\* C7 (as stated): every link token on a line inside a code fence is unchanged
\* in the text handed to the converter.
C7_FencedLinksKept ==
  \A p \in Procs :
    run[p].pc \in {"get", "search"} =>
      \A k \in 1..Len(Lines0) :
        InsideFence(Lines0, k) =>
          SameTokens(run[p].linked, k, Lines0[k], LinkTokens(Lines0[k]))

\* C8 (as stated): every embed or image token on a line inside a code fence is
\* unchanged by resolveImageEmbeds and by resolveWikiLinks, and every
\* attachment belongs to a reference outside the fences.
C8_FencedEmbedsKept ==
  \A p \in Procs :
    /\ run[p].pc \notin {"idle", "read"} =>
         /\ \A k \in 1..Len(Lines0) :
              InsideFence(Lines0, k) =>
                SameTokens(run[p].markdown, k, Lines0[k], ImageTokens)
         /\ \A i \in 1..Len(run[p].attachments) :
              \E k \in Refs : PieceFile(note[k]) = run[p].attachments[i].file
    /\ run[p].pc \in {"get", "search"} =>
         \A k \in 1..Len(Lines0) :
           InsideFence(Lines0, k) =>
             SameTokens(run[p].linked, k, Lines0[k], ImageTokens)

\* C9 (as stated): no two attachments of a run have the same filename.
C9_UniqueFilenames ==
  \A p \in Procs :
    \A i, j \in 1..Len(run[p].attachments) :
      i # j => run[p].attachments[i].filename # run[p].attachments[j].filename

\* C10: resolveImageEmbeds returns one attachment per distinct image file
\* referenced outside code fences, and its text is the note with each of
\* these references replaced by the image of its file's placeholder URL.
C10_AttachmentDedup ==
  \A p \in Procs :
    run[p].pc \notin {"idle", "read"} =>
      /\ {run[p].attachments[i].file : i \in 1..Len(run[p].attachments)}
           = {PieceFile(note[k]) : k \in Refs}
      /\ \A i, j \in 1..Len(run[p].attachments) :
           i # j => run[p].attachments[i].file # run[p].attachments[j].file
      /\ run[p].markdown = Replaced(run[p].attachments)

\* C10 witness: one file referenced three times, by embeds and by a Markdown
\* image, yields one attachment.
C10_Witness ==
  \E p \in Procs :
    /\ note = <<EmbedImg1, MdImg1, EmbedImg1>>
    /\ run[p].pc = "links"
    /\ Len(run[p].attachments) = 1
    /\ Count(run[p].markdown, run[p].attachments[1].placeholderUrl) = 3

\* The line of the note body that piece k lies on: only fence pieces hold
\* line breaks.
LineOf(k) == Cardinality({j \in 1..(k - 1) : note[j] \in {FenceBT, FenceTL}})

IsEmbed(k) == note[k] \in {EmbedImg1, EmbedImg2, EmbedImg3, EmbedImg5}

\* Reference j is reached before reference k: lines in order, on one line the
\* embeds before the Markdown images, each kind from left to right.
Before(j, k) ==
  \/ LineOf(j) < LineOf(k)
  \/ /\ LineOf(j) = LineOf(k)
     /\ \/ IsEmbed(j) /\ ~IsEmbed(k)
        \/ IsEmbed(j) = IsEmbed(k) /\ j < k

\* The reference to file that is reached first.
FirstReached(file) ==
  CHOOSE k \in Refs :
    /\ PieceFile(note[k]) = file
    /\ \A j \in Refs : PieceFile(note[j]) = file /\ j # k => Before(k, j)

\* The first reference to file in the text.
FirstInText(file) == Min({k \in Refs : PieceFile(note[k]) = file})

\* name.ext for k = 1, name-k.ext for k > 1; name-k for a name without
\* extension.
Numbered(name, k) ==
  IF k = 1 THEN name
  ELSE IF LastIndexOf(name, ".") = 0 THEN name \o <<"-">> \o NumToStr(k)
  ELSE SubSeq(name, 1, LastIndexOf(name, ".") - 1) \o <<"-">> \o NumToStr(k)
         \o SubSeq(name, LastIndexOf(name, "."), Len(name))

\* A file name without extension.
PlainName == <<"notes">>

\* usedNames after name was handed out k times.
UsedTimes(name, k) == IF k = 0 THEN EmptyMap ELSE MapSet(EmptyMap, name, k)

\* C11 (as stated): among the attached files of one bare name, the k-th in
\* text order of first reference gets name.ext for k = 1 and name-k.ext
\* otherwise.
C11_NumberedInTextOrder ==
  \A p \in Procs :
    run[p].pc \notin {"idle", "read"} =>
      \A i \in 1..Len(run[p].attachments) :
        run[p].attachments[i].filename =
          Numbered(FileName(run[p].attachments[i].file),
                   Cardinality({j \in 1..Len(run[p].attachments) :
                      /\ FileName(run[p].attachments[j].file)
                           = FileName(run[p].attachments[i].file)
                      /\ FirstInText(run[p].attachments[j].file)
                           <= FirstInText(run[p].attachments[i].file)}))

\* C11 (amended): the attachments are in the order in which resolveImageEmbeds
\* reaches their files (line by line, on one line the embeds before the
\* Markdown images); among the files of one bare name the k-th in that order
\* gets name.ext for k = 1 and name-k.ext otherwise, and the k-th use of a
\* name without extension gets name-k.
C11_NumberedInReachOrder ==
  /\ \A k \in 1..(MaxPieces + 1) :
       buildUniqueFilename(PlainName, UsedTimes(PlainName, k - 1)).filename
         = Numbered(PlainName, k)
  /\ \A p \in Procs :
       run[p].pc \notin {"idle", "read"} =>
         /\ \A i, j \in 1..Len(run[p].attachments) :
              i < j => Before(FirstReached(run[p].attachments[i].file),
                              FirstReached(run[p].attachments[j].file))
         /\ \A i \in 1..Len(run[p].attachments) :
              run[p].attachments[i].filename =
                Numbered(FileName(run[p].attachments[i].file),
                         Cardinality({j \in 1..i :
                            FileName(run[p].attachments[j].file)
                              = FileName(run[p].attachments[i].file)}))

\* C11 witness: three files named a.png embedded in one note got a.png,
\* a-2.png and a-3.png.
C11_Witness ==
  \E p \in Procs :
    /\ note = <<EmbedImg2, EmbedImg5, EmbedImg1>>
    /\ Len(run[p].attachments) = 3
    /\ run[p].attachments[1].filename = <<"a", ".", "png">>
    /\ run[p].attachments[2].filename = <<"a", "-", "2", ".", "png">>
    /\ run[p].attachments[3].filename = <<"a", "-", "3", ".", "png">>

\* The title searches of link targets among the exchanges of a log.
LinkSearches(reqs, title) ==
  {i \in 1..Len(reqs) :
     reqs[i].op = "SEARCH" /\ reqs[i].token = "link" /\ reqs[i].title = title}

\* The page id the frontmatter of file stores, NoId for none or no file.
StoredIn(file) == IF file \in NoteFiles THEN frontmatter[file] ELSE NoId

\* The title by which target T is searched: the display name of its local
\* file, else T.
SearchTitle(T) ==
  IF resolveLinkTargetFile(T, SelfPath) # NoFile
  THEN FileBasename(resolveLinkTargetFile(T, SelfPath))
  ELSE T

\* The pages of a title.
Titled(title) == {i \in PageIds : pages[i].exists /\ pages[i].title = title}

\* The URL a link to T is to get, NoUrl when T does not resolve.
ExpectedUrl(T) ==
  IF StoredIn(resolveLinkTargetFile(T, SelfPath)) # NoId
  THEN getPageUrl(StoredIn(resolveLinkTargetFile(T, SelfPath)))
  ELSE IF Titled(SearchTitle(T)) # {} THEN getPageUrl(Min(Titled(SearchTitle(T))))
  ELSE NoUrl

\* The pieces that are one whole link token, the base target of one and its
\* label.
LinkPieces == {LinkOther, LinkRemote, LinkOtherHeading}

BaseOf(piece) == <<piece[3]>>

LabelOf(piece) == SubSeq(piece, 3, Len(piece) - 2)

\* The note with its image references replaced and every whole-piece link
\* with a URL rewritten to [label](url).
Rewritten(attachments) ==
  Flatten([k \in 1..Len(note) |->
             IF k \in Refs
             THEN <<"!", "[", "]", "(">> \o PlaceholderOf(attachments, PieceFile(note[k]))
                    \o <<")">>
             ELSE IF note[k] \in LinkPieces /\ ExpectedUrl(BaseOf(note[k])) # NoUrl
             THEN <<"[">> \o LabelOf(note[k]) \o <<"]", "(">> \o ExpectedUrl(BaseOf(note[k]))
                    \o <<")">>
             ELSE note[k]])

\* C12: a resolved target whose local file stores a page id has that id's URL
\* and no title search was made for it; any other resolved target was
\* searched once, by its file's display name or else by itself, and has the
\* URL of the first result, or none; in the returned text every link with a
\* URL is rewritten and every other link is kept.
C12_FallbackOrder ==
  \A p \in Procs :
    /\ \A T \in LinkTargets(LinkOccurrences(run[p].markdown)) :
         MapHas(run[p].resolved, T) =>
           /\ MapGet(run[p].resolved, T) = ExpectedUrl(T)
           /\ Cardinality(LinkSearches(run[p].reqs, SearchTitle(T)))
                = (IF StoredIn(resolveLinkTargetFile(T, SelfPath)) # NoId THEN 0 ELSE 1)
    /\ (run[p].pc \in {"get", "search"} /\ \A k \in 1..Len(note) : note[k] # LinkHead)
         => run[p].linked = Rewritten(run[p].attachments)

\* C12 witness: the other note stores page id 2 while a page of its title
\* exists with id 1; the link got the URL of 2 and no search was made.  A
\* second link, to a title without note, was resolved by search.
C12_Witness ==
  \E p \in Procs :
    /\ note = <<LinkOther, LinkRemote>>
    /\ frontmatter[OtherPath] = 2
    /\ Titled(OtherTitle) = {1}
    /\ Titled(RemoteTitle) = {3}
    /\ run[p].pc = "search"
    /\ run[p].linked = <<"[", "o", "]", "(">> \o getPageUrl(2) \o <<")", "[", "r", "]", "(">>
                         \o getPageUrl(3) \o <<")">>
    /\ LinkSearches(run[p].reqs, OtherTitle) = {}

\* The names of the required settings whose value is empty or white space.
MissingNames ==
  SelectSeq(<<[name |-> <<"base URL">>, value |-> settings.baseUrl],
              [name |-> <<"space key">>, value |-> settings.spaceKey],
              [name |-> <<"auth email">>, value |-> settings.authEmail],
              [name |-> <<"API token">>, value |-> settings.apiToken]>>,
            LAMBDA f : f.value \in {<<>>, <<" ">>})

\* C13: while a required setting is empty or white space, every step is a
\* sync invocation that ends with one notice naming all the missing
\* settings, sends nothing to the remote, reads no note and leaves the
\* frontmatter, the remote pages and attachments as they were.
C13_ConfigError ==
  [][MissingNames # <<>> =>
       /\ \A p \in Procs : run'[p] = IdleRun
       /\ frontmatter' = frontmatter
       /\ fileMeta' = fileMeta
       /\ pages' = pages
       /\ remoteAtts' = remoteAtts
       /\ nextId' = nextId
       /\ Len(history') = Len(history) + 1
       /\ history'[Len(history')].reqs = <<>>
       /\ history'[Len(history')].notice
            = <<"Configure Confluence settings: ">>
                \o JoinWith([i \in 1..Len(MissingNames) |-> MissingNames[i].name], ", ")
                \o <<".">>]_vars

\* C13 witness: with a blank space key and a white-space token the invocation
\* ended with the notice naming both.
C13_Witness ==
  /\ settings.spaceKey = <<>>
  /\ settings.apiToken = <<" ">>
  /\ settings.baseUrl = Configured.baseUrl
  /\ settings.authEmail = Configured.authEmail
  /\ Len(history) = 1
  /\ history[1].notice = <<"Configure Confluence settings: ", "space key", ", ", "API token", ".">>
  /\ history[1].reqs = <<>>
  /\ frontmatter[SelfPath] = NoId

\* The calls that go through ConfluenceClient.request.
IsJsonCall(q) == q.op \in {"SEARCH", "GET", "CREATE", "PUT", "ATT_FIND"}

\* C14: an answer other than 2xx to a title search, page fetch, Create, PUT or
\* attachment lookup is the last exchange of its run, the run fails, and the
\* only exchange that directly repeats its predecessor's request is the
\* attachment POST.
C14_AbortNoRetry ==
  \A r \in Runs :
    \A i \in 1..Len(r.reqs) :
      /\ (IsJsonCall(r.reqs[i]) /\ ~Is2xx(r.reqs[i].status)) =>
           i = Len(r.reqs) /\ r.pc = "failed"
      /\ (i > 1 /\ r.reqs[i].op = r.reqs[i - 1].op /\ r.reqs[i].id = r.reqs[i - 1].id
            /\ r.reqs[i].title = r.reqs[i - 1].title) =>
           r.reqs[i].op = "ATT_POST"

IsAttachmentRequest(q) == q.op \in {"ATT_FIND", "ATT_POST"}

\* C15: every attachment request of a run comes after that run's Create or
\* PUT was answered 2xx and is addressed to the page id of that write; a run
\* that issued or is about to issue one has a resolved page id and at least
\* one collected attachment.
C15_AttachmentGuard ==
  /\ \A r \in Runs :
       \A i \in 1..Len(r.reqs) :
         IsAttachmentRequest(r.reqs[i]) =>
           \E j \in 1..(i - 1) :
             /\ IsPageWrite(r.reqs[j])
             /\ Is2xx(r.reqs[j].status)
             /\ r.reqs[j].id = r.reqs[i].id
             /\ \A k \in 1..Len(r.reqs) : IsPageWrite(r.reqs[k]) => k = j
  /\ \A p \in Procs :
       (\/ run[p].pc \in {"att_read", "att_find", "att_post", "att_retry"}
        \/ \E i \in 1..Len(run[p].reqs) : IsAttachmentRequest(run[p].reqs[i]))
         => /\ run[p].resolvedPageId # NoId
            /\ Len(run[p].attachments) > 0
            /\ run[p].attIdx \in 1..Len(run[p].attachments)

\* C15 witness: a run created page 4 and then uploaded an attachment to it.
C15_Witness ==
  \E p \in Procs :
    /\ Len(run[p].reqs) >= 3
    /\ \E j \in 1..Len(run[p].reqs) :
         /\ run[p].reqs[j].op = "CREATE"
         /\ Is2xx(run[p].reqs[j].status)
         /\ run[p].reqs[j].id = FirstNewId
    /\ run[p].reqs[Len(run[p].reqs)].op = "ATT_POST"
    /\ Is2xx(run[p].reqs[Len(run[p].reqs)].status)
    /\ run[p].reqs[Len(run[p].reqs)].id = FirstNewId
    /\ run[p].pageIdFromFrontmatter = NoId

\* The page id a log created before its frontmatter write-back threw, NoId
\* when the log is of no such run.
CreatedUnstored(reqs) ==
  IF /\ Len(reqs) >= 2
     /\ reqs[Len(reqs)].op = "WRITEBACK"
     /\ reqs[Len(reqs)].status = "threw"
     /\ reqs[Len(reqs) - 1].op = "CREATE"
     /\ Is2xx(reqs[Len(reqs) - 1].status)
  THEN reqs[Len(reqs) - 1].id
  ELSE NoId

\* The logs of the run that followed the k-th finished run: at most one.
NextRunLogs(k) ==
  IF k < Len(history) THEN {history[k + 1].reqs}
  ELSE {run[p].reqs : p \in {q \in Procs : Active(q)}}

\* C16 as stated: after a run that created a page and failed in the
\* write-back, the page write of the next run is a Create.
C16_DuplicateCreate ==
  \A k \in 1..Len(history) :
    CreatedUnstored(history[k].reqs) # NoId =>
      \A reqs \in NextRunLogs(k) :
        \A i \in 1..Len(reqs) : IsPageWrite(reqs[i]) => reqs[i].op = "CREATE"

\* C16 amended: after a run that created a page and failed in the write-back,
\* the next run finds that page by the title search, sends no Create, and
\* every page fetch and PUT it sends is addressed to the created page.
C16_NextRunUpdates ==
  \A k \in 1..Len(history) :
    CreatedUnstored(history[k].reqs) # NoId =>
      \A reqs \in NextRunLogs(k) :
        \A i \in 1..Len(reqs) :
          /\ reqs[i].op # "CREATE"
          /\ reqs[i].op \in {"GET", "PUT"} => reqs[i].id = CreatedUnstored(history[k].reqs)

\* C16 witness: the first run created page 4 and its write-back threw; the
\* second run searched by title and updated page 4.
C16_Witness ==
  /\ Len(history) = 2
  /\ CreatedUnstored(history[1].reqs) = FirstNewId
  /\ history[2].outcome = "done"
  /\ \E i \in 1..Len(history[2].reqs) :
       /\ IsOwnSearch(history[2].reqs[i])
       /\ Is2xx(history[2].reqs[i].status)
  /\ \E i \in 1..Len(history[2].reqs) :
       /\ history[2].reqs[i].op = "PUT"
       /\ history[2].reqs[i].id = FirstNewId
       /\ Is2xx(history[2].reqs[i].status)

\* The page id a failed run's log wrote back to the frontmatter before an
\* attachment lookup or upload was answered with an error; NoId for any
\* other log.
StoredThenUploadFailed(reqs) ==
  IF /\ Len(reqs) >= 2
     /\ IsAttachmentRequest(reqs[Len(reqs)])
     /\ ~Is2xx(reqs[Len(reqs)].status)
     /\ \E j \in 1..Len(reqs) : reqs[j].op = "WRITEBACK" /\ reqs[j].status = "ok"
  THEN reqs[Len(reqs)].id
  ELSE NoId

\* C17: a run that fails in an attachment request after the page write and a
\* successful write-back leaves the written body on the remote page and the
\* page id in the frontmatter, sends and writes nothing after the failure,
\* and the next run fetches and PUTs that page id without a title search for
\* the note and without a Create.
C17_NoRollback ==
  /\ \A p \in Procs :
       (run[p].pc = "failed" /\ StoredThenUploadFailed(run[p].reqs) # NoId) =>
         /\ pages[run[p].resolvedPageId].exists
         /\ pages[run[p].resolvedPageId].body = run[p].body
         /\ frontmatter[SelfPath] = run[p].resolvedPageId
         /\ run[p].resolvedPageId = StoredThenUploadFailed(run[p].reqs)
  /\ \A k \in 1..Len(history) :
       (history[k].outcome = "failed" /\ StoredThenUploadFailed(history[k].reqs) # NoId) =>
         /\ Len(history) = k => frontmatter[SelfPath] = StoredThenUploadFailed(history[k].reqs)
         /\ \A reqs \in NextRunLogs(k) :
              \A i \in 1..Len(reqs) :
                /\ reqs[i].op # "CREATE"
                /\ ~IsOwnSearch(reqs[i])
                /\ reqs[i].op \in {"GET", "PUT"} =>
                     reqs[i].id = StoredThenUploadFailed(history[k].reqs)

\* C17 witness: the first run created page 4, stored the id and failed in the
\* upload; the second run updated page 4 and finished.
C17_Witness ==
  /\ Len(history) = 2
  /\ history[1].outcome = "failed"
  /\ StoredThenUploadFailed(history[1].reqs) = FirstNewId
  /\ history[1].reqs[Len(history[1].reqs)].op = "ATT_POST"
  /\ history[2].outcome = "done"
  /\ \E i \in 1..Len(history[2].reqs) :
       /\ history[2].reqs[i].op = "PUT"
       /\ history[2].reqs[i].id = FirstNewId
       /\ Is2xx(history[2].reqs[i].status)

\* The title searches of link targets in a log.
AllLinkSearches(reqs) ==
  {i \in 1..Len(reqs) : reqs[i].op = "SEARCH" /\ reqs[i].token = "link"}

\* The distinct base targets of a note of whole link tokens.
BaseTargets == {BaseOf(note[k]) : k \in {j \in 1..Len(note) : note[j] \in LinkPieces}}

\* C18: no title is searched twice for the links of one run; once the links
\* of a note of whole tokens are resolved, there is one resolution per
\* distinct base target, one title search per distinct base target without
\* stored page id, and every occurrence of a base target is rewritten with
\* the one URL of that target, or every occurrence is kept (the token inside
\* an embed of the note is no occurrence and is kept).
C18_OncePerTarget ==
  \A p \in Procs :
    /\ \A i, j \in AllLinkSearches(run[p].reqs) :
         run[p].reqs[i].title = run[p].reqs[j].title => i = j
    /\ (run[p].pc \in {"get", "search"} /\ \A k \in 1..Len(note) : note[k] # LinkHead) =>
         /\ DOMAIN run[p].resolved = BaseTargets
         /\ Cardinality(AllLinkSearches(run[p].reqs))
              = Cardinality({T \in BaseTargets :
                               StoredIn(resolveLinkTargetFile(T, SelfPath)) = NoId})
         /\ \A k \in 1..Len(note) :
              note[k] \in LinkPieces =>
                Count(run[p].linked, note[k])
                  = Cardinality({j \in 1..Len(note) : note[j] = <<"!">> \o note[k]})
                      + (IF ExpectedUrl(BaseOf(note[k])) # NoUrl THEN 0
                         ELSE Cardinality({j \in 1..Len(note) : note[j] = note[k]}))

\* C18 witness: three occurrences of base target o, one with a heading, were
\* resolved by one title search and rewritten with the one URL.
C18_Witness ==
  \E p \in Procs :
    /\ note = <<LinkOther, LinkOtherHeading, LinkOther>>
    /\ frontmatter[OtherPath] = NoId
    /\ run[p].pc = "search"
    /\ Len(run[p].reqs) = 1
    /\ run[p].linked = <<"[", "o", "]", "(">> \o getPageUrl(1) \o <<")">>
                         \o <<"[", "o", "#", "h", "]", "(">> \o getPageUrl(1) \o <<")">>
                         \o <<"[", "o", "]", "(">> \o getPageUrl(1) \o <<")">>

\* C19: when resolveWikiLinks has returned, no resolution is outstanding, every
\* distinct target has its entry, and the returned text is the substitution
\* with each target's URL as the vault and the remote determine it, whatever
\* the order in which the resolutions returned.
C19_Barrier ==
  \A p \in Procs :
    run[p].pc \in {"get", "search"} =>
      /\ run[p].pending = {}
      /\ DOMAIN run[p].resolved = LinkTargets(LinkOccurrences(run[p].markdown))
      /\ run[p].linked
           = SubstituteLinks(run[p].markdown, LinkOccurrences(run[p].markdown),
                             [T \in LinkTargets(LinkOccurrences(run[p].markdown)) |->
                                ExpectedUrl(T)])

\* C19 witness: the search for the second link's target was answered before
\* the search for the first link's target, and both links are rewritten.
C19_Witness ==
  \E p \in Procs :
    /\ note = <<LinkOther, LinkRemote>>
    /\ run[p].pc = "search"
    /\ Len(run[p].reqs) = 2
    /\ run[p].reqs[1].title = RemoteTitle
    /\ run[p].reqs[2].title = OtherTitle
    /\ run[p].linked = <<"[", "o", "]", "(">> \o getPageUrl(1) \o <<")", "[", "r", "]", "(">>
                         \o getPageUrl(3) \o <<")">>

\* The number of attachment lookups among the first i exchanges of a log: the
\* index of the upload that exchange i belongs to.
UploadAt(reqs, i) == Cardinality({j \in 1..i : reqs[j].op = "ATT_FIND"})

\* The attachment exchanges of run r are the uploads of its attachments, one
\* after the other in list order: each upload is a lookup followed by its
\* POSTs, the next lookup follows a POST answered 2xx, and nothing follows an
\* exchange that failed the upload.
OneByOne(r) ==
  \A i \in 1..Len(r.reqs) :
    IsAttachmentRequest(r.reqs[i]) =>
      /\ UploadAt(r.reqs, i) \in 1..Len(r.attachments)
      /\ r.reqs[i].title = r.attachments[UploadAt(r.reqs, i)].filename
      /\ i > 1
      /\ IF r.reqs[i].op = "ATT_POST"
         THEN IsAttachmentRequest(r.reqs[i - 1]) /\ Is2xx(r.reqs[i - 1].status) = (r.reqs[i - 1].op = "ATT_FIND")
         ELSE IF UploadAt(r.reqs, i) = 1 THEN ~IsAttachmentRequest(r.reqs[i - 1])
         ELSE r.reqs[i - 1].op = "ATT_POST" /\ Is2xx(r.reqs[i - 1].status)
      /\ (~Is2xx(r.reqs[i].status) /\ i < Len(r.reqs)) =>
           /\ r.reqs[i].op = "ATT_POST"
           /\ r.reqs[i].token = "nocheck"
           /\ r.reqs[i + 1].op = "ATT_POST"
           /\ r.reqs[i + 1].token = "no-check"

\* C20 as stated: the uploads of a run go one by one, and the attachments are
\* in the order of their first references in the text.
C20_UploadsInTextOrder ==
  \A p \in Procs :
    run[p].pc \notin {"idle", "read"} =>
      /\ OneByOne(run[p])
      /\ \A k, l \in 1..Len(run[p].attachments) :
           k < l => FirstInText(run[p].attachments[k].file)
                      < FirstInText(run[p].attachments[l].file)

\* C20 amended: the uploads of a run go one by one, and the attachments are in
\* the order in which resolveImageEmbeds reached their first references: line
\* by line, on one line the embeds before the Markdown images.
C20_UploadsInReachOrder ==
  \A p \in Procs :
    run[p].pc \notin {"idle", "read"} =>
      /\ OneByOne(run[p])
      /\ \A k, l \in 1..Len(run[p].attachments) :
           k < l => Before(FirstReached(run[p].attachments[k].file),
                           FirstReached(run[p].attachments[l].file))

\* C20 witness: a Markdown image followed on its line by an embed of another
\* file; the embed's file was uploaded first, the image's file after it.
C20_Witness ==
  \E p \in Procs :
    /\ note = <<MdImg1, EmbedImg2>>
    /\ run[p].pc = "done"
    /\ Len(run[p].attachments) = 2
    /\ run[p].attachments[1].file = Img2Path
    /\ run[p].attachments[2].file = Img1Path
    /\ SelectSeq(run[p].reqs, IsAttachmentRequest)
         = <<FindAttachment([run[p] EXCEPT !.attIdx = 1], "2xx"),
             PostAttachment([run[p] EXCEPT !.attIdx = 1], "nocheck", "2xx"),
             FindAttachment([run[p] EXCEPT !.attIdx = 2], "2xx"),
             PostAttachment([run[p] EXCEPT !.attIdx = 2], "nocheck", "2xx")>>

\* The exchange a step appended to the log of run p.
Appended(p) == run'[p].reqs[Len(run'[p].reqs)]

\* C21: the step that answers an upload's lookup logs the lookup by filename on
\* the page and chooses the data endpoint of the existing attachment when the
\* remote holds one of that filename, else the create endpoint; the first
\* POST goes to the chosen endpoint; the retry POST goes to the endpoint of
\* the first POST, directly after it, with no second lookup.
C21_UploadTarget ==
  [][\A p \in Procs :
       /\ (run[p].pc = "att_find" /\ run'[p].pc = "att_post") =>
            /\ Appended(p).op = "ATT_FIND"
            /\ Appended(p).id = run[p].resolvedPageId
            /\ Appended(p).title = run[p].attachments[run[p].attIdx].filename
            /\ run'[p].attTarget
                 = (IF <<run[p].resolvedPageId, run[p].attachments[run[p].attIdx].filename>>
                         \in remoteAtts
                    THEN "data" ELSE "create")
       /\ (run[p].pc = "att_post" /\ run'[p] # run[p]) =>
            /\ run[p].reqs[Len(run[p].reqs)].op = "ATT_FIND"
            /\ Appended(p).op = "ATT_POST"
            /\ Appended(p).token = "nocheck"
            /\ Appended(p).path = run[p].attTarget
            /\ Appended(p).title = run[p].reqs[Len(run[p].reqs)].title
       /\ (run[p].pc = "att_retry" /\ run'[p] # run[p]) =>
            /\ Len(run'[p].reqs) = Len(run[p].reqs) + 1
            /\ Appended(p).op = "ATT_POST"
            /\ Appended(p).token = "no-check"
            /\ run[p].reqs[Len(run[p].reqs)].op = "ATT_POST"
            /\ Appended(p).path = run[p].reqs[Len(run[p].reqs)].path
            /\ Appended(p).title = run[p].reqs[Len(run[p].reqs)].title
            /\ Appended(p).id = run[p].reqs[Len(run[p].reqs)].id]_vars

\* C21 witness: a second run found the attachment the first run had created;
\* its first POST went to the data endpoint, was rejected for the token, and
\* the retry went to the data endpoint too.
C21_Witness ==
  \E p \in Procs :
    /\ Len(history) = 1
    /\ Len(run[p].reqs) >= 3
    /\ run[p].reqs[Len(run[p].reqs)].op = "ATT_POST"
    /\ run[p].reqs[Len(run[p].reqs)].token = "no-check"
    /\ run[p].reqs[Len(run[p].reqs)].path = "data"
    /\ run[p].reqs[Len(run[p].reqs) - 1].path = "data"
    /\ run[p].reqs[Len(run[p].reqs) - 2].op = "ATT_FIND"
    /\ \E i \in 1..Len(history[1].reqs) :
         /\ history[1].reqs[i].op = "ATT_POST"
         /\ history[1].reqs[i].path = "create"
         /\ history[1].reqs[i].title = run[p].reqs[Len(run[p].reqs)].title

\* C22 (as stated): when the cache holds no page id for the note a link
\* resolves to and that note's text has the line KEY: value in its frontmatter
\* block, plain or quoted, the link has the URL of value and no title search
\* was made for it.
C22_RawTextFallback ==
  \A p \in Procs :
    (/\ MapHas(run[p].resolved, OtherTitle)
     /\ frontmatter[OtherPath] = NoId
     /\ fileMeta[OtherPath].form \in {"plain", "quoted"}) =>
      /\ MapGet(run[p].resolved, OtherTitle) = getPageUrl(fileMeta[OtherPath].pageId)
      /\ LinkSearches(run[p].reqs, OtherTitle) = {}

\* The embed tokens of the note that resolveImageEmbeds leaves in the text:
\* the embeds of a note, and the image embeds inside a code fence.
LeftEmbeds ==
  {k \in 1..Len(note) :
     \/ note[k] = EmbedNote
     \/ note[k] \in {EmbedImg1, EmbedImg2, EmbedImg3, EmbedImg5} /\ OpenAfter(note, k - 1) # ""}

\* C23: no recorded link occurrence starts directly after "!"; and for a note
\* of whole tokens, the resolved targets and the title searches are those of
\* the link tokens alone, and every embed token, replaced by
\* resolveImageEmbeds or left by it, is in the returned text as it was in the
\* text resolveWikiLinks received.
C23_EmbedNeverLink ==
  \A p \in Procs :
    /\ run[p].pc \notin {"idle", "read"} =>
         \A i \in 1..Len(LinkOccurrences(run[p].markdown)) :
           \/ LinkOccurrences(run[p].markdown)[i].start = 1
           \/ run[p].markdown[LinkOccurrences(run[p].markdown)[i].start - 1] # "!"
    /\ (run[p].pc \in {"get", "search"} /\ \A k \in 1..Len(note) : note[k] # LinkHead) =>
         /\ DOMAIN run[p].resolved = BaseTargets
         /\ \A i \in AllLinkSearches(run[p].reqs) :
              \E T \in BaseTargets : run[p].reqs[i].title = SearchTitle(T)
         /\ \A k \in LeftEmbeds :
              /\ Count(run[p].linked, note[k]) = Count(run[p].markdown, note[k])
              /\ Count(run[p].linked, note[k])
                   = Cardinality({j \in LeftEmbeds : note[j] = note[k]})
         /\ Count(run[p].linked, <<"confluence-attachment://">>)
              = Cardinality(Refs)

\* C23 witness: the note is an embed of the note o and an image embed; the
\* first was left by resolveImageEmbeds, the second replaced; no link was
\* recorded and no search made, although a page titled o exists.
C23_Witness ==
  \E p \in Procs :
    /\ note = <<EmbedNote, EmbedImg1>>
    /\ Titled(OtherTitle) # {}
    /\ run[p].pc = "search"
    /\ run[p].reqs = <<>>
    /\ run[p].resolved = EmptyMap
    /\ run[p].linked = EmbedNote \o <<"!", "[", "]", "(", "confluence-attachment://", "a", ".",
                                      "png", ")">>

\* The indices of "|" in the inner text of a link token.
Bars(inner) == {i \in 1..Len(inner) : inner[i] = "|"}

\* The raw target of a link token: the text before the first "|".
RawTargetOf(inner) ==
  Trim(IF Bars(inner) = {} THEN inner ELSE SubSeq(inner, 1, Min(Bars(inner)) - 1))

\* The alias of a link token: the text between the first "|" and the next,
\* <<>> when there is none.
AliasOf(inner) ==
  IF Bars(inner) = {} THEN <<>>
  ELSE Trim(SubSeq(inner, Min(Bars(inner)) + 1,
                   Min({i \in Bars(inner) \cup {Len(inner) + 1} : i > Min(Bars(inner))}) - 1))

\* What stands in the output for link occurrence o.
SpanOutput(o) ==
  IF ExpectedUrl(o.baseTarget) = NoUrl THEN o.full
  ELSE <<"[">> \o (IF AliasOf(o.inner) # <<>> THEN AliasOf(o.inner) ELSE RawTargetOf(o.inner))
         \o <<"]", "(">> \o ExpectedUrl(o.baseTarget) \o <<")">>

\* The text between link occurrence k and the next (k = 0: before the first;
\* after the last: up to the end).
GapAfter(markdown, occs, k) ==
  SubSeq(markdown,
         IF k = 0 THEN 1 ELSE occs[k].end + 1,
         IF k = Len(occs) THEN Len(markdown) ELSE occs[k + 1].start - 1)

\* The gaps and the span outputs in the order of the text.
Framed(markdown, occs) ==
  Flatten([j \in 1..(2 * Len(occs) + 1) |->
             IF j % 2 = 1 THEN GapAfter(markdown, occs, (j - 1) \div 2)
             ELSE SpanOutput(occs[j \div 2])])

\* C24: the text resolveWikiLinks returns is its input with the span of every
\* link occurrence whose target has a URL replaced by [label](url), the label
\* being the alias when there is one and else the raw target; the spans of
\* the other occurrences and the text between the spans are copied in order.
C24_SubstitutionFrame ==
  \A p \in Procs :
    run[p].pc \in {"get", "search"} =>
      run[p].linked = Framed(run[p].markdown, LinkOccurrences(run[p].markdown))

\* C24 witness: a link with an alias, in front of an embed of a note and an
\* unresolved link; the first is rewritten with the alias as label, the rest
\* is as it was.
C24_Witness ==
  \E p \in Procs :
    /\ note = <<LinkHead, LinkOther, EmbedNote>>
    /\ Titled(OtherTitle) = {1}
    /\ frontmatter[OtherPath] = NoId
    /\ run[p].pc = "search"
    /\ run[p].linked = <<"[", "[", "[", "o", "]", "(">> \o getPageUrl(1) \o <<")">> \o EmbedNote

\* C25: a run whose note has no page-id line under the configured key but a
\* line under the legacy key takes the legacy value as the note's stored page
\* id, and a link to such a file gets the URL of the legacy value.
C25_LegacyKeyFallback ==
  \A p \in Procs :
    run[p].pc \in {"get", "search"} =>
      /\ (/\ fileMeta[SelfPath].form = "none"
          /\ fileMeta[SelfPath].legacyPageId # NoId)
           => run[p].pageIdFromFrontmatter = fileMeta[SelfPath].legacyPageId
      /\ (/\ fileMeta[OtherPath].form = "none"
          /\ fileMeta[OtherPath].legacyPageId # NoId
          /\ MapHas(run[p].resolved, <<"o">>))
           => MapGet(run[p].resolved, <<"o">>) = getPageUrl(fileMeta[OtherPath].legacyPageId)

\* The exchanges of run r with operation op.
Requests(r, op) == {i \in 1..Len(r.reqs) : r.reqs[i].op = op}

\* C26: a Create request carries as parent the parent id of the note's own
\* frontmatter when there is one, else the configured parent page id when it
\* is not empty, else none; an Update request carries no parent.
C26_ParentOfCreated ==
  \A p \in Procs :
    /\ \A i \in Requests(run[p], "CREATE") :
         run[p].reqs[i].ancestors =
           IF fileMeta[SelfPath].parentId # NoId THEN <<fileMeta[SelfPath].parentId>>
           ELSE IF settings.parentPageId # NoId THEN <<settings.parentPageId>>
           ELSE <<>>
    /\ \A i \in Requests(run[p], "PUT") : run[p].reqs[i].ancestors = <<>>

\* The attachments of run r that are the first of their file name.
FirstOfName(r) ==
  {k \in 1..Len(r.attachments) :
     \A j \in 1..(k - 1) : FileName(r.attachments[j].file) # FileName(r.attachments[k].file)}

\* C27: whatever another invocation has done or is doing, the first
\* attachment of a file name in a run is named by the file name unsuffixed:
\* the counters of resolveImageEmbeds start empty in every call.
C27_FreshAccumulator ==
  \A p \in Procs :
    \A k \in FirstOfName(run[p]) :
      run[p].attachments[k].filename = FileName(run[p].attachments[k].file)

\* C27 witness: the runs of the notes s and o overlap, each found an image
\* named a.png (of different folders), and each named it a.png.
C27_Witness ==
  /\ Procs = Overlapping
  /\ run[1].file = SelfPath /\ run[2].file = OtherPath
  /\ run[1].pc = "att_read" /\ run[2].pc = "links"
  /\ run[1].attachments[1].file = Img1Path
  /\ run[2].attachments[1].file = Img2Path
  /\ run[1].attachments[1].filename = <<"a", ".", "png">>
  /\ run[2].attachments[1].filename = <<"a", ".", "png">>

\* The answered title searches of run r for its own page.
OwnAnswers(r) == {i \in Requests(r, "SEARCH") : IsOwnSearch(r.reqs[i]) /\ Is2xx(r.reqs[i].status)}

\* C28: nothing keeps two invocations for one note apart: each run whose
\* title search found no page goes on to its own Create, whatever the other
\* run does meanwhile.
C28_UnguardedCreate ==
  \A p \in Procs :
    (/\ OwnAnswers(run[p]) # {}
     /\ run[p].existing = NoId
     /\ run[p].pc \notin {"search", "create"})
      => Requests(run[p], "CREATE") # {}

\* C28 witness: two overlapping invocations for the note s, both started
\* with no stored id and no page of the title, both searched and found
\* nothing, and both created a page.
C28_Witness ==
  /\ Procs = Overlapping
  /\ \A p \in Procs :
       /\ run[p].file = SelfPath
       /\ run[p].fresh
       /\ run[p].pageIdFromFrontmatter = NoId
       /\ OwnAnswers(run[p]) # {}
       /\ run[p].results = {}
       /\ \E i \in Requests(run[p], "CREATE") : Is2xx(run[p].reqs[i].status)
  /\ Cardinality(Titled(SelfTitle)) = 2

\* C29: no body submitted in a Create or an Update holds the placeholder
\* scheme, whatever the note text, a text with a Markdown image of that
\* scheme included.
C29_NoPlaceholderSubmitted ==
  \A p \in Procs :
    \A i \in Requests(run[p], "CREATE") \cup Requests(run[p], "PUT") :
      \A k \in 1..Len(run[p].reqs[i].body) :
        run[p].reqs[i].body[k] # IMAGE_ATTACHMENT_PREFIX

\* The page write of run r was answered 2xx.
PageWriteOk(r) ==
  \E i \in Requests(r, "CREATE") \cup Requests(r, "PUT") : Is2xx(r.reqs[i].status)

\* No write-back of run r threw.
WriteBackOk(r) == \A i \in Requests(r, "WRITEBACK") : r.reqs[i].status = "ok"

\* Every attachment of run r has an upload answered 2xx.
UploadsOk(r) ==
  \A k \in 1..Len(r.attachments) :
    \E i \in Requests(r, "ATT_POST") :
      /\ r.reqs[i].title = r.attachments[k].filename
      /\ Is2xx(r.reqs[i].status)

\* The end of invocation p: one more notice, the success notice exactly when
\* the page write, the write-back and every upload succeeded.
EndsWithOneNotice(p) ==
  /\ run[p].pc \in {"done", "failed"}
  /\ Len(history') = Len(history) + 1
  /\ SubSeq(history', 1, Len(history)) = history
  /\ history'[Len(history')].notice =
       IF PageWriteOk(run[p]) /\ WriteBackOk(run[p]) /\ UploadsOk(run[p])
       THEN <<"Synced to Confluence.">>
       ELSE <<"Confluence sync failed. Check console for details.">>

\* C30: when every call returns, every invocation that started ends; it ends
\* from Done or Failed with one notice, the success notice exactly when every
\* step succeeded, and no notice is emitted at any other moment.
C30_SingleOutcome ==
  /\ \A p \in OneAtATime : Active(p) ~> ~Active(p)
  /\ [][/\ \A p \in OneAtATime : (Active(p) /\ ~Active(p)') => EndsWithOneNotice(p)
        /\ history' # history => \E p \in OneAtATime : Active(p) /\ ~Active(p)']_vars

\* C30 witness: two invocations have ended, one with every step done (a
\* page write, the write-back and the upload) and the success notice, one
\* with the failure notice.
C30_Witness ==
  /\ Len(history) = 2
  /\ \E k \in 1..2 :
       /\ history[k].notice = <<"Synced to Confluence.">>
       /\ Cardinality({i \in 1..Len(history[k].reqs) :
                         history[k].reqs[i].op = "ATT_POST"
                         /\ Is2xx(history[k].reqs[i].status)}) = 1
       /\ Requests(history[k], "WRITEBACK") # {}
       /\ history[3 - k].notice = <<"Confluence sync failed. Check console for details.">>

\* The calls of syncFile up to and including the page write.
IsEarlyCall(q) == q.op \in {"SEARCH", "GET", "CREATE", "PUT"}

\* The log holds a call up to the page write that was not answered 2xx.
FailedEarly(reqs) ==
  \E i \in 1..Len(reqs) : IsEarlyCall(reqs[i]) /\ ~Is2xx(reqs[i].status)

\* The files whose stored page id or cached frontmatter changes in the step.
Modified == {f \in NoteFiles : frontmatter'[f] # frontmatter[f] \/ fileMeta'[f] # fileMeta[f]}

\* C31: a run with a failed call up to the page write (a title search of a
\* link or of the note, the page fetch, the Create or the PUT) fails, its log
\* holds no frontmatter write and no attachment request, and the frontmatter
\* of a note changes only in a write-back step of a run on that note whose
\* calls so far were all answered 2xx.
C31_CommitFree ==
  /\ [](\A r \in Runs :
          FailedEarly(r.reqs) =>
            /\ r.pc = "failed"
            /\ \A i \in 1..Len(r.reqs) :
                 r.reqs[i].op # "WRITEBACK" /\ ~IsAttachmentRequest(r.reqs[i]))
  /\ [][\A f \in Modified :
          \E p \in Procs :
            /\ run[p].file = f
            /\ run[p].pc = "writeback"
            /\ ~FailedEarly(run[p].reqs)
            /\ run'[p].reqs = Append(run[p].reqs, WriteFrontmatter(run[p], "ok"))]_vars

\* C31 witness: a run on a note with an image and no stored page id found the
\* page by title, its PUT was answered 500 and it failed; the key is
\* configured and the note still stores no page id.
C31_Witness ==
  \E p \in Procs :
    /\ run[p].pc = "failed"
    /\ Len(run[p].reqs) = 3
    /\ run[p].reqs[3].op = "PUT"
    /\ run[p].reqs[3].status = "500"
    /\ Len(run[p].attachments) > 0
    /\ run[p].pageIdFromFrontmatter = NoId
    /\ run[p].existing # NoId
    /\ FrontmatterKey # <<>>
    /\ frontmatter[run[p].file] = NoId

\* The positions of syncFile before its page write was answered.
BeforePageWrite == {"read", "links", "search", "get", "put", "create"}

\* C32: the log of every run holds at most one Create or PUT, answered or
\* not; a run that has not passed its page write holds none that was answered
\* 2xx, and a run that is past it holds exactly one, answered 2xx.
C32_OnePageWrite ==
  /\ \A r \in Runs : Len(PageWrites(r.reqs)) <= 1
  /\ \A p \in Procs :
       /\ run[p].pc \in BeforePageWrite => PageWrites(run[p].reqs) = <<>>
       /\ run[p].pc \notin BeforePageWrite \cup {"idle", "failed"} =>
            /\ Len(PageWrites(run[p].reqs)) = 1
            /\ Is2xx(PageWrites(run[p].reqs)[1].status)

\* C32 witness: a run that created the page of the note has ended, and a
\* later run is done after one fetch and one PUT of that page.
C32_Witness ==
  /\ Len(history) = 1
  /\ Len(PageWrites(history[1].reqs)) = 1
  /\ PageWrites(history[1].reqs)[1].op = "CREATE"
  /\ \E p \in Procs :
       /\ run[p].pc = "done"
       /\ Len(PageWrites(run[p].reqs)) = 1
       /\ PageWrites(run[p].reqs)[1].op = "PUT"
       /\ PageWrites(run[p].reqs)[1].id = PageWrites(history[1].reqs)[1].id
       /\ Requests(run[p], "GET") # {}
====
